---- MODULE Spec2Model ----
(***************************************************************************)
(* The filesystem-backed content store of promptbox (backend/server.js).   *)
(*                                                                         *)
(* The store is a directory tree: one directory per category, holding a    *)
(* sidecar _category.json and, per project, <id>.json (metadata) and       *)
(* <id>.md (content).  Every request handler is an async function that     *)
(* suspends at each filesystem call; one action of this module is one such *)
(* call together with the synchronous code that follows it up to the next  *)
(* call.  Strings that the code inspects character by character (names,    *)
(* ids) are sequences of one-character strings; a file body is a sequence  *)
(* of lines.                                                               *)
(***************************************************************************)
EXTENDS Integers, Sequences, FiniteSets, TLC

VARIABLES
    fs,      \* DATA_DIR: directory name -> [json, md], each basename -> file
    now,     \* the clock, Date.now()
    req,     \* request slot -> the handler's position and locals
    ops,     \* number of requests started so far
    faults,  \* number of filesystem calls that failed with an I/O error
    hist     \* history: what the responses sent so far have told the clients

vars == <<fs, now, req, ops, faults, hist>>

-----------------------------------------------------------------------------
(* Bounds of the model *)

MaxOps == 2
MaxClock == 2
MaxFaults == 1
MaxConcurrentOps == 3

Slots == {"r1", "r2"}

-----------------------------------------------------------------------------
(* Values *)

Undefined == "<undefined>"
EmptyObject == "{}"
NoMeta == [none |-> TRUE]
Null == "<null>"

\* Names are sequences of characters.
Str_A == <<"A">>
Str_B == <<"B">>
Str_C == <<"C">>
Str_Dot == <<".", "x">>
Str_Ad == <<"A", "d">>
Str_Old == <<"O", "l", "d">>
Str_old == <<"o", "l", "d">>
Str_New == <<"N", "e", "w">>
\* The basename of a category's sidecar, _category.json.
Str_category == <<"_", "c", "a", "t", "e", "g", "o", "r", "y">>

\* The order in which readdir(DATA_DIR) yields the entries.
EnumOrder == <<Str_Dot, Str_A, Str_B, Str_C>>

startsWithDot(name) == Len(name) > 0 /\ name[1] = "."

LowerCase(c) ==
    CASE c = "A" -> "a" [] c = "B" -> "b" [] c = "D" -> "d" [] c = "N" -> "n"
      [] c = "O" -> "o" [] OTHER -> c

IsAlnumOrCJK(c) ==
    c \in {"a", "b", "d", "e", "l", "n", "o", "w", "x",
           "A", "B", "D", "N", "O", "0", "1", "2", "3", "4", "5", "6", "7", "8", "9"}

\* name.replace(/[^a-z0-9一-龥]/gi, '_').toLowerCase()
safeName(name) ==
    [i \in 1..Len(name) |->
        LowerCase(IF IsAlnumOrCJK(name[i]) THEN name[i] ELSE "_")]

Digit(n) == <<"0", "1", "2", "3", "4", "5", "6", "7", "8", "9">>[n + 1]

RECURSIVE Decimal(_)
Decimal(n) == IF n < 10 THEN <<Digit(n)>> ELSE Decimal(n \div 10) \o <<Digit(n % 10)>>

\* `${safeName}-${Date.now()}`
baseNameOf(name, t) == safeName(name) \o <<"-">> \o Decimal(t)

-----------------------------------------------------------------------------
(* File contents *)

\* A content file is a sequence of lines: the front-matter delimiter "---",
\* a YAML "key: value" line, or a line of text.
Delim == [kind |-> "delim"]
Field(k, v) == [kind |-> "field", key |-> k, value |-> v]
Text(t) == [kind |-> "text", text |-> t]

EmptyData == [k \in {} |-> Undefined]

\* The YAML block between the delimiters, as an object.
yamlLoad(block) ==
    LET idx == {i \in 1..Len(block) : block[i].kind = "field"}
        keys == {block[i].key : i \in idx}
    IN  [k \in keys |-> block[CHOOSE i \in idx : block[i].key = k].value]

\* gray-matter's matter(content): {data, content}.  A file that does not open
\* with the delimiter has no data; an unclosed block runs to the end of the file.
matter(content) ==
    IF Len(content) = 0 \/ content[1] # Delim
    THEN [data |-> EmptyData, content |-> content]
    ELSE LET str == Tail(content)
             closes == {i \in 1..Len(str) : str[i] = Delim}
             closeIndex == IF closes = {} THEN Len(str) + 1
                           ELSE CHOOSE i \in closes : \A j \in closes : i <= j
         IN  [data |-> yamlLoad(SubSeq(str, 1, closeIndex - 1)),
              content |-> SubSeq(str, closeIndex + 1, Len(str))]

\* parsed.data.key || fallback: an empty string is falsy, an array never is
orText(data, key, fallback) ==
    IF key \in DOMAIN data /\ data[key] # <<>> THEN data[key] ELSE fallback

orWord(data, key, fallback) ==
    IF key \in DOMAIN data /\ data[key] # "" THEN data[key] ELSE fallback

orArray(data, key, fallback) ==
    IF key \in DOMAIN data THEN data[key] ELSE fallback

orBool(data, key, fallback) ==
    IF key \in DOMAIN data /\ data[key] THEN data[key] ELSE fallback

orTime(data, key, fallback) ==
    IF key \in DOMAIN data /\ data[key] # 0 THEN data[key] ELSE fallback

orUndefined(data, key) ==
    IF key \in DOMAIN data THEN data[key] ELSE Undefined

\* A record that forgets the header's tags.
migratedMeta_dropsTags(data, catName, baseName, t) ==
    [id |-> orText(data, "id", baseName),
     name |-> orText(data, "name", baseName),
     description |-> orUndefined(data, "description"),
     tags |-> <<>>,
     category_id |-> catName,
     is_favorite |-> orBool(data, "is_favorite", FALSE),
     created_at |-> orTime(data, "created_at", t),
     updated_at |-> orTime(data, "updated_at", t),
     type |-> orWord(data, "type", "text"),
     versions |-> orArray(data, "versions", <<>>)]

\* The record migrateToSplitFormat builds from the parsed header.
migratedMeta(data, catName, baseName, t) ==
    [id |-> orText(data, "id", baseName),
     name |-> orText(data, "name", baseName),
     description |-> orUndefined(data, "description"),
     tags |-> orArray(data, "tags", <<>>),
     category_id |-> catName,
     is_favorite |-> orBool(data, "is_favorite", FALSE),
     created_at |-> orTime(data, "created_at", t),
     updated_at |-> orTime(data, "updated_at", t),
     type |-> orWord(data, "type", "text"),
     versions |-> orArray(data, "versions", <<>>)]

\* The record readProjectFile synthesizes for a content file without header.
defaultRecord(catName, baseName, t, body) ==
    [id |-> baseName,
     name |-> baseName,
     description |-> "",
     tags |-> <<>>,
     category_id |-> catName,
     is_favorite |-> FALSE,
     created_at |-> t,
     updated_at |-> t,
     type |-> "text",
     versions |-> <<>>,
     current_content |-> body]

\* A record whose content is always empty.
withContent_empty(meta, content) ==
    [k \in DOMAIN meta \cup {"current_content"} |->
        IF k = "current_content" THEN <<>> ELSE meta[k]]

\* { ...meta, current_content: content }
withContent(meta, content) ==
    [k \in DOMAIN meta \cup {"current_content"} |->
        IF k = "current_content" THEN content ELSE meta[k]]

-----------------------------------------------------------------------------
(* The filesystem *)

\* A directory holds <basename>.json files and <basename>.md files.
EmptyDir == [json |-> [k \in {} |-> NoMeta], md |-> [k \in {} |-> <<>>]]

Put(f, k, v) == [x \in DOMAIN f \cup {k} |-> IF x = k THEN v ELSE f[x]]
Drop(f, k) == [x \in DOMAIN f \ {k} |-> f[x]]

dirExists(f, d) == d \in DOMAIN f
jsonExists(f, d, id) == d \in DOMAIN f /\ id \in DOMAIN f[d].json
mdExists(f, d, id) == d \in DOMAIN f /\ id \in DOMAIN f[d].md

\* fs.readdir(DATA_DIR)
readdir(f) == SelectSeq(EnumOrder, LAMBDA d : d \in DOMAIN f)

ensureDir(f, d) == IF d \in DOMAIN f THEN f ELSE Put(f, d, EmptyDir)

writeJson(f, d, id, meta) == [f EXCEPT ![d].json = Put(@, id, meta)]
writeFile(f, d, id, content) == [f EXCEPT ![d].md = Put(@, id, content)]
\* A removal that leaves the metadata file in place.
unlinkJson_keeps(f, d, id) == f

unlinkJson(f, d, id) == [f EXCEPT ![d].json = Drop(@, id)]
unlinkMd(f, d, id) == [f EXCEPT ![d].md = Drop(@, id)]

\* A move of the metadata file that leaves the source file in place.
moveJson_copies(f, from, to, id) ==
    LET g == ensureDir(f, to)
    IN  [g EXCEPT ![to].json = Put(@, id, f[from].json[id])]

\* fs.move(src, dest) of one file: the destination directory is made if absent.
moveJson(f, from, to, id) ==
    LET g == ensureDir(f, to)
    IN  [g EXCEPT ![to].json = Put(@, id, f[from].json[id]),
                  ![from].json = Drop(@, id)]

\* A move that leaves the source file in place.
moveMd_copies(f, from, to, id) ==
    LET g == ensureDir(f, to)
    IN  [g EXCEPT ![to].md = Put(@, id, f[from].md[id])]

moveMd(f, from, to, id) ==
    LET g == ensureDir(f, to)
    IN  [g EXCEPT ![to].md = Put(@, id, f[from].md[id]),
                  ![from].md = Drop(@, id)]

\* fs.rename(oldPath, newPath) of a directory
renameDir(f, from, to) ==
    [d \in (DOMAIN f \ {from}) \cup {to} |-> IF d = to THEN f[from] ELSE f[d]]

-----------------------------------------------------------------------------
(* Requests *)

Idle == [op |-> "idle", pc |-> "idle"]
NoRes == [status |-> 0]

InFlight(s) == req[s].pc \notin {"idle", "done"}

\* Date.now() is read as now; time passes between the arrivals of requests.
Arrivals == {now} \cup (IF now < MaxClock THEN {now + 1} ELSE {})

\* The highest version_num a completed append has returned for id.
Returned(id) ==
    LET answered == {x \in Slots : /\ req[x].pc = "done" /\ req[x].op = "append"
                                   /\ req[x].id = id /\ req[x].res.status = 200}
        nums == {req[x].res.body.version_num : x \in answered}
                  \cup {IF id \in DOMAIN hist.returned THEN hist.returned[id] ELSE 0}
    IN  CHOOSE n \in nums : \A m \in nums : m <= n

\* The handler's locals, and what the request saw when it arrived: pre is the
\* store, prev the response sent last, floor the highest version_num returned
\* so far for its id; solo tells that no other request has been in flight at
\* any moment of this one; at is the call that threw, if one did.
NewRequest(s, op, id, body, first) ==
    [op |-> op, pc |-> first, id |-> id, body |-> body,
     cats |-> <<>>, i |-> 0, cat |-> <<>>, dir |-> <<>>, ret |-> "",
     meta |-> NoMeta, text |-> <<>>, found |-> FALSE, res |-> NoRes, at |-> "",
     pre |-> fs, prev |-> hist.last, floor |-> Returned(id),
     solo |-> \A x \in Slots \ {s} : ~InFlight(x)]

Reply(r, status, body) ==
    [r EXCEPT !.pc = "done", !.res = [status |-> status, body |-> body]]

\* Every handler catches what its filesystem calls throw and answers 500.
Throw(r, e) == [Reply(r, 500, e) EXCEPT !.at = r.pc]

Goto(s, r) == req' = [req EXCEPT ![s] = r]

CanStart(s, par) ==
    /\ req[s].pc = "idle"
    /\ ops < (IF par = 1 THEN MaxOps ELSE MaxConcurrentOps)
    /\ Cardinality({x \in Slots : InFlight(x)}) < par

Begin(s, r) ==
    /\ now' \in Arrivals
    /\ req' = [x \in Slots |->
                 IF x = s THEN r
                 ELSE IF InFlight(x) THEN [req[x] EXCEPT !.solo = FALSE]
                 ELSE req[x]]
    /\ ops' = ops + 1
    /\ hist' = [hist EXCEPT !.overlap = @ \/ \E x \in Slots \ {s} : InFlight(x)]
    /\ UNCHANGED <<fs, faults>>

NoLast == [op |-> "none"]

\* The response has been sent; the slot is free again.
Respond(s) ==
    /\ req[s].pc = "done"
    /\ req' = [req EXCEPT ![s] = Idle]
    /\ LET r == req[s]
           ok == r.res.status = 200
       IN  hist' = [hist EXCEPT
                      !.last = IF ok /\ r.op = "append"
                               THEN [op |-> r.op, id |-> r.id, version |-> r.res.body]
                               ELSE IF ok /\ r.op = "favorite"
                               THEN [op |-> r.op, id |-> r.id, res |-> r.res.body,
                                     before |-> IF jsonExists(r.pre, r.cat, r.id)
                                                THEN r.pre[r.cat].json[r.id]
                                                ELSE NoMeta]
                               ELSE IF ok /\ r.op = "put"
                               THEN [op |-> r.op, id |-> r.id, res |-> r.res.body,
                                     body |-> r.body]
                               ELSE IF ok /\ r.op \in {"create", "catCreate"}
                               THEN [op |-> r.op, id |-> r.id, res |-> r.res.body]
                               ELSE IF ok /\ r.op \in {"delete", "catDelete"}
                               THEN [op |-> r.op, id |-> r.id, pre |-> r.pre]
                               ELSE NoLast,
                      !.returned = IF ok /\ r.op = "append"
                                   THEN Put(@, r.id, Returned(r.id))
                                   ELSE IF ok /\ r.op = "delete"
                                   THEN Put(@, r.id, 0)
                                   ELSE @]
    /\ UNCHANGED <<fs, now, ops, faults>>

-----------------------------------------------------------------------------
(* POST /api/projects *)

StartCreateProject(s, par, name, category_id) ==
    /\ CanStart(s, par)
    /\ LET body == [name |-> name, category_id |-> category_id,
                    description |-> Undefined]
       IN  Begin(s, IF category_id = <<>>
                    THEN Reply(NewRequest(s, "create", <<>>, body, "done"), 400,
                               "Category is required")
                    ELSE IF name = <<>>
                    THEN Reply(NewRequest(s, "create", <<>>, body, "done"), 400,
                               "Name is required")
                    ELSE NewRequest(s, "create", baseNameOf(name, now'), body,
                                    "crEnsureDir"))

CreateEnsureDir(s) ==
    /\ req[s].pc = "crEnsureDir"
    /\ LET r == req[s] IN
       LET t == now IN
         /\ now' = now
         /\ fs' = ensureDir(fs, r.body.category_id)
         /\ Goto(s, [r EXCEPT !.pc = "crWriteJson",
                              !.meta = [id |-> r.id,
                                        name |-> r.body.name,
                                        description |-> r.body.description,
                                        tags |-> <<>>,
                                        category_id |-> r.body.category_id,
                                        is_favorite |-> FALSE,
                                        created_at |-> t,
                                        updated_at |-> t,
                                        type |-> "text",
                                        versions |-> <<>>]])
    /\ UNCHANGED <<ops, faults, hist>>

CreateWriteJson(s) ==
    /\ req[s].pc = "crWriteJson"
    /\ LET r == req[s] IN
       IF ~dirExists(fs, r.body.category_id)
       THEN Goto(s, Throw(r, "ENOENT")) /\ UNCHANGED fs
       ELSE /\ fs' = writeJson(fs, r.body.category_id, r.id, r.meta)
            /\ Goto(s, [r EXCEPT !.pc = "crWriteMd"])
    /\ UNCHANGED <<now, ops, faults, hist>>

CreateWriteMd(s) ==
    /\ req[s].pc = "crWriteMd"
    /\ LET r == req[s] IN
       IF ~dirExists(fs, r.body.category_id)
       THEN Goto(s, Throw(r, "ENOENT")) /\ UNCHANGED fs
       ELSE /\ fs' = writeFile(fs, r.body.category_id, r.id, <<>>)
            /\ Goto(s, Reply(r, 200, withContent(r.meta, <<>>)))
    /\ UNCHANGED <<now, ops, faults, hist>>

-----------------------------------------------------------------------------
(* The locator: the scan every project handler opens with *)

\* A scan that looks into every directory.
skipDots_none(cats, i) == i

RECURSIVE skipDots(_, _)
skipDots(cats, i) ==
    IF i <= Len(cats) /\ startsWithDot(cats[i]) THEN skipDots(cats, i + 1) ELSE i

\* The first filesystem call of an iteration of the scan.
LoopHead(op) ==
    CASE op = "get" -> "scanStat"
      [] op = "delete" -> "delChkMd"
      [] OTHER -> "scanMd"

\* A scan that gives up after the first directory.
ScanFrom_stopsAfterFirst(r, i) ==
    LET j == skipDots(r.cats, i)
    IN  IF j > Len(r.cats) \/ i > 1
        THEN Reply(r, 404, "Project not found")
        ELSE [r EXCEPT !.i = j, !.found = FALSE, !.pc = LoopHead(r.op)]

\* The loop moves to entry i, or ends without a match: 404.
ScanFrom(r, i) ==
    LET j == skipDots(r.cats, i)
    IN  IF j > Len(r.cats)
        THEN Reply(r, 404, "Project not found")
        ELSE [r EXCEPT !.i = j, !.found = FALSE, !.pc = LoopHead(r.op)]

\* currentCat = cat; break: the handler goes on in the directory found.
Located(r) ==
    LET cat == r.cats[r.i]
    IN  [r EXCEPT !.cat = cat, !.dir = cat,
                  !.pc = CASE r.op = "get" -> "rpfChkJson"
                           [] r.op = "put" -> "putChkMd"
                           [] r.op = "versions" -> "verChkJson"
                           [] OTHER -> "chkJson"]

Readdir(s) ==
    /\ req[s].pc = "readdir"
    /\ Goto(s, ScanFrom([req[s] EXCEPT !.cats = readdir(fs)], 1))
    /\ UNCHANGED <<fs, now, ops, faults, hist>>

\* GET /api/projects/:id only: an entry that is no directory is skipped.
ScanStat(s) ==
    /\ req[s].pc = "scanStat"
    /\ LET r == req[s] IN
       Goto(s, IF dirExists(fs, r.cats[r.i]) THEN [r EXCEPT !.pc = "scanMd"]
               ELSE ScanFrom(r, r.i + 1))
    /\ UNCHANGED <<fs, now, ops, faults, hist>>

ScanMd(s) ==
    /\ req[s].pc = "scanMd"
    /\ LET r == req[s] IN
       Goto(s, IF mdExists(fs, r.cats[r.i], r.id) THEN Located(r)
               ELSE [r EXCEPT !.pc = "scanJson"])
    /\ UNCHANGED <<fs, now, ops, faults, hist>>

ScanJson(s) ==
    /\ req[s].pc = "scanJson"
    /\ LET r == req[s] IN
       Goto(s, IF jsonExists(fs, r.cats[r.i], r.id) THEN Located(r)
               ELSE ScanFrom(r, r.i + 1))
    /\ UNCHANGED <<fs, now, ops, faults, hist>>

-----------------------------------------------------------------------------
(* migrateToSplitFormat(catName, fileName), called with catName = r.dir *)

\* versions.sort((a, b) => b.version_num - a.version_num): a stable sort
RECURSIVE insertDesc(_, _)
insertDesc(sorted, v) ==
    IF sorted = <<>> THEN <<v>>
    ELSE IF Head(sorted).version_num >= v.version_num
         THEN <<Head(sorted)>> \o insertDesc(Tail(sorted), v)
         ELSE <<v>> \o sorted

\* A listing in stored order.
sortDesc_asStored(versions) == versions

RECURSIVE sortDesc(_)
sortDesc(versions) ==
    IF versions = <<>> THEN <<>>
    ELSE insertDesc(sortDesc(SubSeq(versions, 1, Len(versions) - 1)),
                    versions[Len(versions)])

\* meta.versions || []
versionsOf(meta) == IF "versions" \in DOMAIN meta THEN meta.versions ELSE <<>>

\* Where the caller goes on when migrate has returned meta (or null).
\* A caller that answers with what the migration returned, without loading
\* the metadata file.
AfterMigrate_skipsLoad(r, meta) ==
    CASE r.ret = "rpf" ->
           [r EXCEPT !.meta = meta,
                     !.pc = IF meta = NoMeta THEN "rpfReadMdNull" ELSE "rpfReadMdMeta"]
      [] r.ret = "versions" -> Reply(r, 200, sortDesc(versionsOf(meta)))
      [] OTHER -> Reply(r, 200, meta)

AfterMigrate(r, meta) ==
    CASE r.ret = "rpf" ->
           [r EXCEPT !.meta = meta,
                     !.pc = IF meta = NoMeta THEN "rpfReadMdNull" ELSE "rpfReadMdMeta"]
      [] r.ret = "versions" -> Reply(r, 200, sortDesc(versionsOf(meta)))
      [] OTHER -> [r EXCEPT !.pc = "readJson"]

\* A migration that does not look at the header.
hasFrontmatterData_always(parsed) == TRUE

\* Object.keys(parsed.data).length > 0
hasFrontmatterData(parsed) == DOMAIN parsed.data # {}

MigrateRead(s) ==
    /\ req[s].pc = "migRead"
    /\ LET r == req[s] IN
       IF ~mdExists(fs, r.dir, r.id)
       THEN Goto(s, Throw(r, "ENOENT")) /\ now' = now
       ELSE LET parsed == matter(fs[r.dir].md[r.id])
            IN  IF hasFrontmatterData(parsed)
                THEN LET t == now IN
                       /\ now' = now
                       /\ Goto(s, [r EXCEPT !.pc = "migWriteJson",
                                            !.meta = migratedMeta(parsed.data, r.dir,
                                                                  r.id, t),
                                            !.text = parsed.content])
                ELSE Goto(s, AfterMigrate(r, NoMeta)) /\ now' = now
    /\ UNCHANGED <<fs, ops, faults, hist>>

\* A migration that goes on to the content file without writing the metadata.
MigrateWriteJson_skipsWrite(s) ==
    /\ req[s].pc = "migWriteJson"
    /\ Goto(s, [req[s] EXCEPT !.pc = "migWriteMd"])
    /\ UNCHANGED <<fs, now, ops, faults, hist>>

MigrateWriteJson(s) ==
    /\ req[s].pc = "migWriteJson"
    /\ LET r == req[s] IN
       IF ~dirExists(fs, r.dir)
       THEN Goto(s, Throw(r, "ENOENT")) /\ UNCHANGED fs
       ELSE /\ fs' = writeJson(fs, r.dir, r.id, r.meta)
            /\ Goto(s, [r EXCEPT !.pc = "migWriteMd"])
    /\ UNCHANGED <<now, ops, faults, hist>>

MigrateWriteMd(s) ==
    /\ req[s].pc = "migWriteMd"
    /\ LET r == req[s] IN
       IF ~dirExists(fs, r.dir)
       THEN Goto(s, Throw(r, "ENOENT")) /\ UNCHANGED fs
       ELSE /\ fs' = writeFile(fs, r.dir, r.id, r.text)
            /\ Goto(s, AfterMigrate(r, r.meta))
    /\ UNCHANGED <<now, ops, faults, hist>>

-----------------------------------------------------------------------------
(* readProjectFile(catName, fileName), called with catName = r.dir.  Its    *)
(* result is the response of the handler that called it.                    *)

ReadChkJson(s) ==
    /\ req[s].pc = "rpfChkJson"
    /\ LET r == req[s] IN
       Goto(s, [r EXCEPT !.pc = IF jsonExists(fs, r.dir, r.id) THEN "rpfReadJson"
                                ELSE "rpfChkLegacy"])
    /\ UNCHANGED <<fs, now, ops, faults, hist>>

ReadJson(s) ==
    /\ req[s].pc = "rpfReadJson"
    /\ LET r == req[s] IN
       Goto(s, IF jsonExists(fs, r.dir, r.id)
               THEN [r EXCEPT !.meta = fs[r.dir].json[r.id], !.pc = "rpfChkMd"]
               ELSE Throw(r, "ENOENT"))
    /\ UNCHANGED <<fs, now, ops, faults, hist>>

ReadChkMd(s) ==
    /\ req[s].pc = "rpfChkMd"
    /\ LET r == req[s] IN
       Goto(s, IF mdExists(fs, r.dir, r.id) THEN [r EXCEPT !.pc = "rpfReadMd"]
               ELSE Reply(r, 200, withContent(r.meta, <<>>)))
    /\ UNCHANGED <<fs, now, ops, faults, hist>>

\* The content read after the metadata was loaded from, or migrated to, the
\* metadata file.
ReadMd(s) ==
    /\ req[s].pc \in {"rpfReadMd", "rpfReadMdMeta"}
    /\ LET r == req[s] IN
       Goto(s, IF mdExists(fs, r.dir, r.id)
               THEN Reply(r, 200, withContent(r.meta, fs[r.dir].md[r.id]))
               ELSE Throw(r, "ENOENT"))
    /\ UNCHANGED <<fs, now, ops, faults, hist>>

ReadChkLegacy(s) ==
    /\ req[s].pc = "rpfChkLegacy"
    /\ LET r == req[s] IN
       Goto(s, IF mdExists(fs, r.dir, r.id)
               THEN [r EXCEPT !.pc = "migRead", !.ret = "rpf"]
               ELSE Throw(r, "Project not found"))
    /\ UNCHANGED <<fs, now, ops, faults, hist>>

\* migrate returned null: the record is synthesized, nothing is written.
ReadMdNull(s) ==
    /\ req[s].pc = "rpfReadMdNull"
    /\ LET r == req[s] IN
       IF mdExists(fs, r.dir, r.id)
       THEN LET t == now IN
              /\ now' = now
              /\ Goto(s, Reply(r, 200,
                      defaultRecord(r.dir, r.id, t, matter(fs[r.dir].md[r.id]).content)))
       ELSE Goto(s, Throw(r, "ENOENT")) /\ now' = now
    /\ UNCHANGED <<fs, ops, faults, hist>>

-----------------------------------------------------------------------------
(* GET /api/projects/:id *)

StartGet(s, par, id) ==
    /\ CanStart(s, par)
    /\ Begin(s, NewRequest(s, "get", id, [none |-> TRUE], "readdir"))

-----------------------------------------------------------------------------
(* PUT /api/projects/:id, POST /api/projects/:id/favorite,                  *)
(* POST /api/projects/:id/versions: locate, migrate if needed, load.        *)

\* The request body of PUT: has is the set of keys it carries.
PutBody(has, name, content, category_id) ==
    [has |-> has, name |-> name, description |-> "d", tags |-> <<>>,
     is_favorite |-> TRUE, current_content |-> content, category_id |-> category_id]

StartPut(s, par, id, body) ==
    /\ CanStart(s, par)
    /\ Begin(s, NewRequest(s, "put", id, body, "readdir"))

StartFavorite(s, par, id) ==
    /\ CanStart(s, par)
    /\ Begin(s, NewRequest(s, "favorite", id, [none |-> TRUE], "readdir"))

StartAppend(s, par, id, content) ==
    /\ CanStart(s, par)
    /\ Begin(s, NewRequest(s, "append", id,
                           [content |-> content, parameters |-> Undefined], "readdir"))

\* PUT: pathExists(md) && !pathExists(json)
PutChkMd(s) ==
    /\ req[s].pc = "putChkMd"
    /\ LET r == req[s] IN
       Goto(s, [r EXCEPT !.pc = IF mdExists(fs, r.cat, r.id) THEN "putChkJson"
                                ELSE "readJson"])
    /\ UNCHANGED <<fs, now, ops, faults, hist>>

\* !pathExists(json): migrate
ChkJson(s) ==
    /\ req[s].pc \in {"putChkJson", "chkJson"}
    /\ LET r == req[s] IN
       Goto(s, IF jsonExists(fs, r.cat, r.id) THEN [r EXCEPT !.pc = "readJson"]
               ELSE [r EXCEPT !.pc = "migRead", !.ret = "handler"])
    /\ UNCHANGED <<fs, now, ops, faults, hist>>

\* if (x): a string given and not empty
Truthy(body, key) == key \in body.has /\ body[key] # <<>>

\* An update that takes every field of the body, supplied or not.
putFields_takesAll(meta, body, t) ==
    [k \in DOMAIN meta \cup {"updated_at", "name", "description", "tags",
                              "is_favorite"} |->
        CASE k \in {"name", "description", "tags", "is_favorite"} -> body[k]
          [] k = "updated_at" -> t
          [] OTHER -> meta[k]]

\* PUT's field updates on the loaded metadata
putFields(meta, body, t) ==
    [k \in DOMAIN meta \cup {"updated_at"}
           \cup ({"description", "is_favorite"} \cap body.has)
           \cup (IF Truthy(body, "name") THEN {"name"} ELSE {})
           \cup ({"tags"} \cap body.has) |->
        CASE k = "name" /\ Truthy(body, "name") -> body.name
          [] k = "description" /\ k \in body.has -> body.description
          [] k = "tags" /\ k \in body.has -> body.tags
          [] k = "is_favorite" /\ k \in body.has -> body.is_favorite
          [] k = "updated_at" -> t
          [] OTHER -> meta[k]]

\* category_id && category_id !== currentCat
IsMove(r) == Truthy(r.body, "category_id") /\ r.body.category_id # r.cat

\* PUT after the content write, if any: move, or save in place.
PutSave(r) ==
    [r EXCEPT !.pc = IF IsMove(r) THEN "putEnsureDir" ELSE "putWriteJson"]

\* A call that sets the flag instead of flipping it.
toggled_setsTrue(meta) ==
    [k \in DOMAIN meta \cup {"is_favorite"} |->
        IF k = "is_favorite" THEN TRUE ELSE meta[k]]

\* meta.is_favorite = !meta.is_favorite
toggled(meta) ==
    [k \in DOMAIN meta \cup {"is_favorite"} |->
        IF k = "is_favorite"
        THEN ~("is_favorite" \in DOMAIN meta /\ meta.is_favorite)
        ELSE meta[k]]

\* A numbering that starts at 0.
newVersion_zeroBased(meta, body, t) ==
    [id |-> t,
     version_num |-> Len(versionsOf(meta)),
     content |-> body.content,
     parameters |-> IF body.parameters = Undefined THEN EmptyObject ELSE body.parameters,
     created_at |-> t]

\* The version POST .../versions builds
newVersion(meta, body, t) ==
    [id |-> t,
     version_num |-> Len(versionsOf(meta)) + 1,
     content |-> body.content,
     parameters |-> IF body.parameters = Undefined THEN EmptyObject ELSE body.parameters,
     created_at |-> t]

\* A save that keeps only the newest version.
appended_keepsNewest(meta, v, t) ==
    [k \in DOMAIN meta \cup {"versions", "updated_at"} |->
        CASE k = "versions" -> <<v>>
          [] k = "updated_at" -> t
          [] OTHER -> meta[k]]

appended(meta, v, t) ==
    [k \in DOMAIN meta \cup {"versions", "updated_at"} |->
        CASE k = "versions" -> Append(versionsOf(meta), v)
          [] k = "updated_at" -> t
          [] OTHER -> meta[k]]

\* const meta = await fs.readJson(jsonPath), and the changes made in memory
LoadJson(s) ==
    /\ req[s].pc = "readJson"
    /\ LET r == req[s] IN
       IF ~jsonExists(fs, r.cat, r.id)
       THEN Goto(s, Throw(r, "ENOENT")) /\ now' = now
       ELSE LET meta == fs[r.cat].json[r.id] IN
            CASE r.op = "put" ->
                   LET t == now IN
                     /\ now' = now
                     /\ Goto(s, LET q == [r EXCEPT !.meta = putFields(meta, r.body, t)]
                                IN  IF "current_content" \in r.body.has
                                    THEN [q EXCEPT !.pc = "putWriteMd"]
                                    ELSE PutSave(q))
              [] r.op = "favorite" ->
                   /\ now' = now
                   /\ Goto(s, [r EXCEPT !.meta = toggled(meta), !.pc = "favWriteJson"])
              [] OTHER ->
                   LET t == now IN
                     /\ now' = now
                     /\ LET v == newVersion(meta, r.body, t)
                        IN  Goto(s, [r EXCEPT !.meta = appended(meta, v, t),
                                              !.text = v, !.pc = "appWriteJson"])
    /\ UNCHANGED <<fs, ops, faults, hist>>

-----------------------------------------------------------------------------
(* PUT /api/projects/:id: content write, save in place or move *)

\* An update that leaves the content file alone.
PutWriteMd_skipsWrite(s) ==
    /\ req[s].pc = "putWriteMd"
    /\ Goto(s, PutSave(req[s]))
    /\ UNCHANGED <<fs, now, ops, faults, hist>>

PutWriteMd(s) ==
    /\ req[s].pc = "putWriteMd"
    /\ LET r == req[s] IN
       IF ~dirExists(fs, r.cat)
       THEN Goto(s, Throw(r, "ENOENT")) /\ UNCHANGED fs
       ELSE /\ fs' = writeFile(fs, r.cat, r.id, r.body.current_content)
            /\ Goto(s, PutSave(r))
    /\ UNCHANGED <<now, ops, faults, hist>>

\* A save that applies the supplied fields to the metadata stored now, not
\* to the metadata read before.
PutWriteJson_appliesToStored(s) ==
    /\ req[s].pc = "putWriteJson"
    /\ LET r == req[s] IN
       IF ~dirExists(fs, r.cat)
       THEN Goto(s, Throw(r, "ENOENT")) /\ UNCHANGED fs
       ELSE /\ fs' = writeJson(fs, r.cat, r.id,
                               IF jsonExists(fs, r.cat, r.id)
                               THEN putFields(fs[r.cat].json[r.id], r.body,
                                              r.meta.updated_at)
                               ELSE r.meta)
            /\ Goto(s, [r EXCEPT !.pc = "rpfChkJson", !.dir = r.cat])
    /\ UNCHANGED <<now, ops, faults, hist>>

PutWriteJson(s) ==
    /\ req[s].pc = "putWriteJson"
    /\ LET r == req[s] IN
       IF ~dirExists(fs, r.cat)
       THEN Goto(s, Throw(r, "ENOENT")) /\ UNCHANGED fs
       ELSE /\ fs' = writeJson(fs, r.cat, r.id, r.meta)
            /\ Goto(s, [r EXCEPT !.pc = "rpfChkJson", !.dir = r.cat])
    /\ UNCHANGED <<now, ops, faults, hist>>

PutEnsureDir(s) ==
    /\ req[s].pc = "putEnsureDir"
    /\ LET r == req[s] IN
       /\ fs' = ensureDir(fs, r.body.category_id)
       /\ Goto(s, [r EXCEPT !.pc = "putMoveJson",
                            !.meta = [r.meta EXCEPT !.category_id = r.body.category_id]])
    /\ UNCHANGED <<now, ops, faults, hist>>

\* A move of the metadata file that replaces the file at the target and then
\* reports that the target existed.
PutMoveJson_checksAfter(s) ==
    /\ req[s].pc = "putMoveJson"
    /\ LET r == req[s] IN
       IF ~jsonExists(fs, r.cat, r.id)
       THEN Goto(s, Throw(r, "ENOENT")) /\ UNCHANGED fs
       ELSE /\ fs' = moveJson(fs, r.cat, r.body.category_id, r.id)
            /\ Goto(s, IF jsonExists(fs, r.body.category_id, r.id)
                       THEN Throw(r, "dest already exists.")
                       ELSE [r EXCEPT !.pc = "putChkMdMove"])
    /\ UNCHANGED <<now, ops, faults, hist>>

\* fs.move without overwrite: fails if the source is gone or the target exists.
PutMoveJson(s) ==
    /\ req[s].pc = "putMoveJson"
    /\ LET r == req[s] IN
       IF ~jsonExists(fs, r.cat, r.id)
       THEN Goto(s, Throw(r, "ENOENT")) /\ UNCHANGED fs
       ELSE IF jsonExists(fs, r.body.category_id, r.id)
       THEN Goto(s, Throw(r, "dest already exists.")) /\ UNCHANGED fs
       ELSE /\ fs' = moveJson(fs, r.cat, r.body.category_id, r.id)
            /\ Goto(s, [r EXCEPT !.pc = "putChkMdMove"])
    /\ UNCHANGED <<now, ops, faults, hist>>

PutChkMdMove(s) ==
    /\ req[s].pc = "putChkMdMove"
    /\ LET r == req[s] IN
       Goto(s, [r EXCEPT !.pc = IF mdExists(fs, r.cat, r.id) THEN "putMoveMd"
                                ELSE "putWriteJsonNew"])
    /\ UNCHANGED <<fs, now, ops, faults, hist>>

PutMoveMd(s) ==
    /\ req[s].pc = "putMoveMd"
    /\ LET r == req[s] IN
       IF ~mdExists(fs, r.cat, r.id)
       THEN Goto(s, Throw(r, "ENOENT")) /\ UNCHANGED fs
       ELSE IF mdExists(fs, r.body.category_id, r.id)
       THEN Goto(s, Throw(r, "dest already exists.")) /\ UNCHANGED fs
       ELSE /\ fs' = moveMd(fs, r.cat, r.body.category_id, r.id)
            /\ Goto(s, [r EXCEPT !.pc = "putWriteJsonNew"])
    /\ UNCHANGED <<now, ops, faults, hist>>

PutWriteJsonNew(s) ==
    /\ req[s].pc = "putWriteJsonNew"
    /\ LET r == req[s] IN
       IF ~dirExists(fs, r.body.category_id)
       THEN Goto(s, Throw(r, "ENOENT")) /\ UNCHANGED fs
       ELSE /\ fs' = writeJson(fs, r.body.category_id, r.id, r.meta)
            /\ Goto(s, [r EXCEPT !.pc = "rpfChkJson", !.dir = r.body.category_id])
    /\ UNCHANGED <<now, ops, faults, hist>>

-----------------------------------------------------------------------------
(* POST /api/projects/:id/favorite *)

FavoriteWriteJson(s) ==
    /\ req[s].pc = "favWriteJson"
    /\ LET r == req[s] IN
       IF ~dirExists(fs, r.cat)
       THEN Goto(s, Throw(r, "ENOENT")) /\ UNCHANGED fs
       ELSE /\ fs' = writeJson(fs, r.cat, r.id, r.meta)
            /\ Goto(s, [r EXCEPT !.pc = "rpfChkJson", !.dir = r.cat])
    /\ UNCHANGED <<now, ops, faults, hist>>

-----------------------------------------------------------------------------
(* POST /api/projects/:id/versions *)

AppendWriteJson(s) ==
    /\ req[s].pc = "appWriteJson"
    /\ LET r == req[s] IN
       IF ~dirExists(fs, r.cat)
       THEN Goto(s, Throw(r, "ENOENT")) /\ UNCHANGED fs
       ELSE /\ fs' = writeJson(fs, r.cat, r.id, r.meta)
            /\ Goto(s, [r EXCEPT !.pc = "appWriteMd"])
    /\ UNCHANGED <<now, ops, faults, hist>>

\* An append that answers without rewriting the content file.
AppendWriteMd_keepsContent(s) ==
    /\ req[s].pc = "appWriteMd"
    /\ Goto(s, Reply(req[s], 200, req[s].text))
    /\ UNCHANGED <<fs, now, ops, faults, hist>>

AppendWriteMd(s) ==
    /\ req[s].pc = "appWriteMd"
    /\ LET r == req[s] IN
       IF ~dirExists(fs, r.cat)
       THEN Goto(s, Throw(r, "ENOENT")) /\ UNCHANGED fs
       ELSE /\ fs' = writeFile(fs, r.cat, r.id, r.body.content)
            /\ Goto(s, Reply(r, 200, r.text))
    /\ UNCHANGED <<now, ops, faults, hist>>

-----------------------------------------------------------------------------
(* GET /api/projects/:id/versions *)

StartVersions(s, par, id) ==
    /\ CanStart(s, par)
    /\ Begin(s, NewRequest(s, "versions", id, [none |-> TRUE], "readdir"))

VersionsChkJson(s) ==
    /\ req[s].pc = "verChkJson"
    /\ LET r == req[s] IN
       Goto(s, IF jsonExists(fs, r.cat, r.id) THEN [r EXCEPT !.pc = "verReadJson"]
               ELSE [r EXCEPT !.pc = "migRead", !.ret = "versions"])
    /\ UNCHANGED <<fs, now, ops, faults, hist>>

VersionsReadJson(s) ==
    /\ req[s].pc = "verReadJson"
    /\ LET r == req[s] IN
       Goto(s, IF jsonExists(fs, r.cat, r.id)
               THEN Reply(r, 200, sortDesc(versionsOf(fs[r.cat].json[r.id])))
               ELSE Throw(r, "ENOENT"))
    /\ UNCHANGED <<fs, now, ops, faults, hist>>

-----------------------------------------------------------------------------
(* DELETE /api/projects/:id *)

StartDelete(s, par, id) ==
    /\ CanStart(s, par)
    /\ Begin(s, NewRequest(s, "delete", id, [none |-> TRUE], "readdir"))

DeleteChkMd(s) ==
    /\ req[s].pc = "delChkMd"
    /\ LET r == req[s] IN
       Goto(s, [r EXCEPT !.pc = IF mdExists(fs, r.cats[r.i], r.id) THEN "delUnlinkMd"
                                ELSE "delChkJson"])
    /\ UNCHANGED <<fs, now, ops, faults, hist>>

DeleteUnlinkMd(s) ==
    /\ req[s].pc = "delUnlinkMd"
    /\ LET r == req[s] IN
       IF ~mdExists(fs, r.cats[r.i], r.id)
       THEN Goto(s, Throw(r, "ENOENT")) /\ UNCHANGED fs
       ELSE /\ fs' = unlinkMd(fs, r.cats[r.i], r.id)
            /\ Goto(s, [r EXCEPT !.found = TRUE, !.pc = "delChkJson"])
    /\ UNCHANGED <<now, ops, faults, hist>>

DeleteChkJson(s) ==
    /\ req[s].pc = "delChkJson"
    /\ LET r == req[s] IN
       Goto(s, IF jsonExists(fs, r.cats[r.i], r.id) THEN [r EXCEPT !.pc = "delUnlinkJson"]
               ELSE IF r.found THEN Reply(r, 200, "ok")
               ELSE ScanFrom(r, r.i + 1))
    /\ UNCHANGED <<fs, now, ops, faults, hist>>

DeleteUnlinkJson(s) ==
    /\ req[s].pc = "delUnlinkJson"
    /\ LET r == req[s] IN
       IF ~jsonExists(fs, r.cats[r.i], r.id)
       THEN Goto(s, Throw(r, "ENOENT")) /\ UNCHANGED fs
       ELSE /\ fs' = unlinkJson(fs, r.cats[r.i], r.id)
            /\ Goto(s, Reply(r, 200, "ok"))
    /\ UNCHANGED <<now, ops, faults, hist>>

-----------------------------------------------------------------------------
(* POST /api/categories *)

\* x || y for words, where undefined, null and "" are falsy
orElse(x, y) == IF x \in {Undefined, "", Null} THEN y ELSE x

StartCreateCategory(s, par, name, color, icon) ==
    /\ CanStart(s, par)
    /\ LET body == [name |-> name, color |-> color, icon |-> icon]
           r == NewRequest(s, "catCreate", name, body, "ccChk")
       IN  Begin(s, IF name = <<>> THEN Reply(r, 400, "Name is required") ELSE r)

\* A create that does not look whether the directory exists.
CategoryCreateChk_noCheck(s) ==
    /\ req[s].pc = "ccChk"
    /\ Goto(s, [req[s] EXCEPT !.pc = "ccEnsureDir"])
    /\ UNCHANGED <<fs, now, ops, faults, hist>>

CategoryCreateChk(s) ==
    /\ req[s].pc = "ccChk"
    /\ LET r == req[s] IN
       Goto(s, IF dirExists(fs, r.id) THEN Reply(r, 400, "Category already exists")
               ELSE [r EXCEPT !.pc = "ccEnsureDir"])
    /\ UNCHANGED <<fs, now, ops, faults, hist>>

\* A create that stores the default sort order instead of the time.
CategoryCreateEnsureDir_defaultOrder(s) ==
    /\ req[s].pc = "ccEnsureDir"
    /\ LET r == req[s] IN
         /\ now' = now
         /\ fs' = ensureDir(fs, r.id)
         /\ Goto(s, [r EXCEPT !.pc = "ccWriteJson",
                              !.meta = [id |-> r.body.name,
                                        name |-> r.body.name,
                                        color |-> orElse(r.body.color, "blue"),
                                        icon |-> orElse(r.body.icon, Null),
                                        sort_order |-> 99]])
    /\ UNCHANGED <<ops, faults, hist>>

CategoryCreateEnsureDir(s) ==
    /\ req[s].pc = "ccEnsureDir"
    /\ LET r == req[s] IN
       LET t == now IN
         /\ now' = now
         /\ fs' = ensureDir(fs, r.id)
         /\ Goto(s, [r EXCEPT !.pc = "ccWriteJson",
                              !.meta = [id |-> r.body.name,
                                        name |-> r.body.name,
                                        color |-> orElse(r.body.color, "blue"),
                                        icon |-> orElse(r.body.icon, Null),
                                        sort_order |-> t]])
    /\ UNCHANGED <<ops, faults, hist>>

CategoryCreateWriteJson(s) ==
    /\ req[s].pc = "ccWriteJson"
    /\ LET r == req[s] IN
       IF ~dirExists(fs, r.id)
       THEN Goto(s, Throw(r, "ENOENT")) /\ UNCHANGED fs
       ELSE /\ fs' = writeJson(fs, r.id, Str_category, r.meta)
            /\ Goto(s, Reply(r, 200, r.meta))
    /\ UNCHANGED <<now, ops, faults, hist>>

-----------------------------------------------------------------------------
(* PUT /api/categories/:id *)

StartRenameCategory(s, par, oldName, name, color, icon) ==
    /\ CanStart(s, par)
    /\ Begin(s, NewRequest(s, "catRename", oldName,
                           [name |-> name, color |-> color, icon |-> icon], "crnChkOld"))

CategoryRenameChkOld(s) ==
    /\ req[s].pc = "crnChkOld"
    /\ LET r == req[s] IN
       Goto(s, IF ~dirExists(fs, r.id) THEN Reply(r, 404, "Category not found")
               ELSE [r EXCEPT !.pc = IF r.body.name # r.id THEN "crnChkNew"
                                     ELSE "crnChkMeta"])
    /\ UNCHANGED <<fs, now, ops, faults, hist>>

\* A rename that does not look whether the new name is taken.
CategoryRenameChkNew_noCheck(s) ==
    /\ req[s].pc = "crnChkNew"
    /\ Goto(s, [req[s] EXCEPT !.pc = "crnRename"])
    /\ UNCHANGED <<fs, now, ops, faults, hist>>

CategoryRenameChkNew(s) ==
    /\ req[s].pc = "crnChkNew"
    /\ LET r == req[s] IN
       Goto(s, IF dirExists(fs, r.body.name)
               THEN Reply(r, 400, "Target category name already exists")
               ELSE [r EXCEPT !.pc = "crnRename"])
    /\ UNCHANGED <<fs, now, ops, faults, hist>>

\* fs.rename of the directory: onto nothing, or onto an empty directory.
CategoryRename(s) ==
    /\ req[s].pc = "crnRename"
    /\ LET r == req[s] IN
       IF ~dirExists(fs, r.id)
       THEN Goto(s, Throw(r, "ENOENT")) /\ UNCHANGED fs
       ELSE IF dirExists(fs, r.body.name) /\ fs[r.body.name] # EmptyDir
       THEN Goto(s, Throw(r, "ENOTEMPTY")) /\ UNCHANGED fs
       ELSE /\ fs' = renameDir(fs, r.id, r.body.name)
            /\ Goto(s, [r EXCEPT !.pc = "crnChkMeta"])
    /\ UNCHANGED <<now, ops, faults, hist>>

CategoryRenameChkMeta(s) ==
    /\ req[s].pc = "crnChkMeta"
    /\ LET r == req[s] IN
       Goto(s, [r EXCEPT !.pc = IF jsonExists(fs, r.body.name, Str_category)
                                THEN "crnReadJson" ELSE "crnWriteJson",
                         !.meta = [k \in {} |-> Undefined]])
    /\ UNCHANGED <<fs, now, ops, faults, hist>>

CategoryRenameReadJson(s) ==
    /\ req[s].pc = "crnReadJson"
    /\ LET r == req[s] IN
       Goto(s, IF jsonExists(fs, r.body.name, Str_category)
               THEN [r EXCEPT !.pc = "crnWriteJson",
                              !.meta = fs[r.body.name].json[Str_category]]
               ELSE Throw(r, "ENOENT"))
    /\ UNCHANGED <<fs, now, ops, faults, hist>>

\* meta.name = name; meta.color = color || meta.color; meta.icon = icon ||
\* meta.icon; meta.id = name.  JSON drops a key whose value is undefined.
renamedSidecar(meta, body) ==
    LET old(k) == IF k \in DOMAIN meta THEN meta[k] ELSE Undefined
        color == orElse(body.color, old("color"))
        icon == orElse(body.icon, old("icon"))
        keys == (DOMAIN meta \ {"color", "icon"}) \cup {"name", "id"}
                  \cup (IF color = Undefined THEN {} ELSE {"color"})
                  \cup (IF icon = Undefined THEN {} ELSE {"icon"})
    IN  [k \in keys |->
            CASE k \in {"name", "id"} -> body.name
              [] k = "color" -> color
              [] k = "icon" -> icon
              [] OTHER -> meta[k]]

CategoryRenameWriteJson(s) ==
    /\ req[s].pc = "crnWriteJson"
    /\ LET r == req[s]
           meta == renamedSidecar(r.meta, r.body) IN
       IF ~dirExists(fs, r.body.name)
       THEN Goto(s, Throw(r, "ENOENT")) /\ UNCHANGED fs
       ELSE /\ fs' = writeJson(fs, r.body.name, Str_category, meta)
            /\ Goto(s, Reply(r, 200, meta))
    /\ UNCHANGED <<now, ops, faults, hist>>

-----------------------------------------------------------------------------
(* DELETE /api/categories/:id *)

StartDeleteCategory(s, par, name) ==
    /\ CanStart(s, par)
    /\ Begin(s, NewRequest(s, "catDelete", name, [none |-> TRUE], "cdChk"))

CategoryDeleteChk(s) ==
    /\ req[s].pc = "cdChk"
    /\ LET r == req[s] IN
       Goto(s, IF dirExists(fs, r.id) THEN [r EXCEPT !.pc = "cdRemove"]
               ELSE Reply(r, 200, "ok"))
    /\ UNCHANGED <<fs, now, ops, faults, hist>>

\* fs.remove(dirPath): the directory and all it holds; no error if it is gone.
CategoryDeleteRemove(s) ==
    /\ req[s].pc = "cdRemove"
    /\ fs' = Drop(fs, req[s].id)
    /\ Goto(s, Reply(req[s], 200, "ok"))
    /\ UNCHANGED <<now, ops, faults, hist>>

-----------------------------------------------------------------------------
(* GET /api/categories *)

\* let meta = { id: item.name, name: item.name, color: 'blue', icon: null,
\* sort_order: 99 }
categoryDefaults(name) ==
    [id |-> name, name |-> name, color |-> "blue", icon |-> Null, sort_order |-> 99]

\* { ...meta, ...fileMeta }
spread(meta, fileMeta) ==
    [k \in DOMAIN meta \cup DOMAIN fileMeta |->
        IF k \in DOMAIN fileMeta THEN fileMeta[k] ELSE meta[k]]

RECURSIVE insertAsc(_, _)
insertAsc(sorted, c) ==
    IF sorted = <<>> THEN <<c>>
    ELSE IF Head(sorted).sort_order <= c.sort_order
         THEN <<Head(sorted)>> \o insertAsc(Tail(sorted), c)
         ELSE <<c>> \o sorted

\* A listing in the order of the enumeration.
sortAsc_asEnumerated(categories) == categories

\* categories.sort((a, b) => a.sort_order - b.sort_order): a stable sort
RECURSIVE sortAsc(_)
sortAsc(categories) ==
    IF categories = <<>> THEN <<>>
    ELSE insertAsc(sortAsc(SubSeq(categories, 1, Len(categories) - 1)),
                   categories[Len(categories)])

\* The loop moves to item i, skipping the names that start with a dot, or
\* ends: the categories are sorted and sent.  categories keeps the entries in
\* the order they were pushed, dirs the directory each was read from.
ListFrom(r, i) ==
    LET j == skipDots(r.cats, i)
    IN  IF j > Len(r.cats)
        THEN Reply(r, 200, sortAsc(r.categories))
        ELSE [r EXCEPT !.i = j, !.pc = "clChkMeta"]

push(r, meta) ==
    [r EXCEPT !.categories = Append(@, meta), !.dirs = Append(@, r.cats[r.i])]

StartListCategories(s, par) ==
    /\ CanStart(s, par)
    /\ Begin(s, Put(Put(NewRequest(s, "catList", <<>>, [none |-> TRUE], "clReaddir"),
                        "categories", <<>>), "dirs", <<>>))

\* fs.readdir(DATA_DIR, { withFileTypes: true })
ListReaddir(s) ==
    /\ req[s].pc = "clReaddir"
    /\ Goto(s, ListFrom([req[s] EXCEPT !.cats = readdir(fs)], 1))
    /\ UNCHANGED <<fs, now, ops, faults, hist>>

\* fs.pathExists(metaPath)
ListChkMeta(s) ==
    /\ req[s].pc = "clChkMeta"
    /\ LET r == req[s]
           name == r.cats[r.i] IN
       Goto(s, IF jsonExists(fs, name, Str_category)
               THEN [r EXCEPT !.pc = "clReadJson"]
               ELSE ListFrom(push(r, categoryDefaults(name)), r.i + 1))
    /\ UNCHANGED <<fs, now, ops, faults, hist>>

\* fs.readJson(metaPath)
ListReadJson(s) ==
    /\ req[s].pc = "clReadJson"
    /\ LET r == req[s]
           name == r.cats[r.i] IN
       Goto(s, IF jsonExists(fs, name, Str_category)
               THEN ListFrom(push(r, spread(categoryDefaults(name),
                                            fs[name].json[Str_category])), r.i + 1)
               ELSE Throw(r, "ENOENT"))
    /\ UNCHANGED <<fs, now, ops, faults, hist>>

-----------------------------------------------------------------------------
(* PUT /api/categories/reorder *)

\* The loop moves to item i of the body, or ends.
ReorderFrom(r, i) ==
    IF i > Len(r.body)
    THEN Reply(r, 200, "ok")
    ELSE [r EXCEPT !.i = i, !.pc = "roChkDir"]

StartReorder(s, par, items) ==
    /\ CanStart(s, par)
    /\ Begin(s, ReorderFrom(NewRequest(s, "catReorder", <<>>, items, "roChkDir"), 1))

\* fs.pathExists(dirPath)
ReorderChkDir(s) ==
    /\ req[s].pc = "roChkDir"
    /\ LET r == req[s] IN
       Goto(s, IF dirExists(fs, r.body[r.i].id) THEN [r EXCEPT !.pc = "roChkMeta"]
               ELSE ReorderFrom(r, r.i + 1))
    /\ UNCHANGED <<fs, now, ops, faults, hist>>

\* A reorder that starts from the default sidecar whether one is stored or not.
ReorderChkMeta_neverReads(s) ==
    /\ req[s].pc = "roChkMeta"
    /\ LET r == req[s]
           item == r.body[r.i] IN
       Goto(s, [r EXCEPT !.pc = "roWriteJson",
                         !.meta = [id |-> item.id, name |-> item.id,
                                   color |-> "blue"]])
    /\ UNCHANGED <<fs, now, ops, faults, hist>>

\* fs.pathExists(metaPath), else meta = { id, name, color: 'blue' }
ReorderChkMeta(s) ==
    /\ req[s].pc = "roChkMeta"
    /\ LET r == req[s]
           item == r.body[r.i] IN
       Goto(s, IF jsonExists(fs, item.id, Str_category)
               THEN [r EXCEPT !.pc = "roReadJson"]
               ELSE [r EXCEPT !.pc = "roWriteJson",
                              !.meta = [id |-> item.id, name |-> item.id,
                                        color |-> "blue"]])
    /\ UNCHANGED <<fs, now, ops, faults, hist>>

\* meta = await fs.readJson(metaPath)
ReorderReadJson(s) ==
    /\ req[s].pc = "roReadJson"
    /\ LET r == req[s]
           item == r.body[r.i] IN
       Goto(s, IF jsonExists(fs, item.id, Str_category)
               THEN [r EXCEPT !.pc = "roWriteJson",
                              !.meta = fs[item.id].json[Str_category]]
               ELSE Throw(r, "ENOENT"))
    /\ UNCHANGED <<fs, now, ops, faults, hist>>

\* meta.sort_order = item.sort_order; await fs.writeJson(metaPath, meta)
ReorderWriteJson(s) ==
    /\ req[s].pc = "roWriteJson"
    /\ LET r == req[s]
           item == r.body[r.i] IN
       IF ~dirExists(fs, item.id)
       THEN Goto(s, Throw(r, "ENOENT")) /\ UNCHANGED fs
       ELSE /\ fs' = writeJson(fs, item.id, Str_category,
                               Put(r.meta, "sort_order", item.sort_order))
            /\ Goto(s, ReorderFrom(r, r.i + 1))
    /\ UNCHANGED <<now, ops, faults, hist>>

-----------------------------------------------------------------------------
(* Failures of the filesystem *)

WritingPcs ==
    {"crEnsureDir", "crWriteJson", "crWriteMd", "migWriteJson", "migWriteMd",
     "putWriteMd", "putWriteJson", "putEnsureDir", "putMoveJson", "putMoveMd",
     "putWriteJsonNew", "favWriteJson", "appWriteJson", "appWriteMd",
     "delUnlinkMd", "delUnlinkJson", "ccEnsureDir", "ccWriteJson", "crnRename",
     "crnWriteJson", "cdRemove", "roWriteJson"}

\* A write, move or remove fails with an I/O error and changes nothing; the
\* handler's catch answers 500.
IOFault(s) ==
    /\ req[s].pc \in WritingPcs
    /\ faults < MaxFaults
    /\ faults' = faults + 1
    /\ Goto(s, Throw(req[s], "EIO"))
    /\ UNCHANGED <<fs, now, ops, hist>>

-----------------------------------------------------------------------------
(* The stores a run starts from, and the requests it may issue *)

\* A version as the single-file format carried it in its header.
OldVersion ==
    [id |-> 0, version_num |-> 1, content |-> <<Text("Draft")>>,
     parameters |-> EmptyObject, created_at |-> 0]

\* Content files written before the split format: header and body in one file.
LegacyFull ==
    <<Delim, Field("name", Str_Old), Field("tags", <<"a", "b">>), Delim, Text("Hello")>>
LegacyVersioned ==
    <<Delim, Field("is_favorite", TRUE), Field("versions", <<OldVersion>>),
      Field("category_id", Str_B), Delim, Text("Hello")>>
LegacyEmptyHeader == <<Delim, Delim, Text("Hello")>>
LegacyBare == <<Text("Hello")>>

LegacyFiles == {LegacyFull, LegacyVersioned, LegacyEmptyHeader, LegacyBare}

LegacyStore(content) ==
    Put(<<>>, Str_A, [EmptyDir EXCEPT !.md = Put(@, Str_old, content)])

\* The metadata POST /api/projects writes for name "Ad" in category A at time 1,
\* and the version a first POST .../versions adds to it.
FreshMeta ==
    [id |-> baseNameOf(Str_Ad, 1), name |-> Str_Ad, description |-> Undefined,
     tags |-> <<>>, category_id |-> Str_A, is_favorite |-> FALSE, created_at |-> 1,
     updated_at |-> 1, type |-> "text", versions |-> <<>>]
FirstVersion ==
    [id |-> 1, version_num |-> 1, content |-> <<Text("Buy now")>>,
     parameters |-> EmptyObject, created_at |-> 1]

SplitStore(meta, content) ==
    Put(<<>>, Str_A, [json |-> Put(<<>>, meta.id, meta),
                      md |-> Put(<<>>, meta.id, content)])

FreshStore == SplitStore(FreshMeta, <<>>)
VersionedStore ==
    SplitStore([FreshMeta EXCEPT !.versions = <<FirstVersion>>], <<Text("Buy now")>>)

\* The store after POST /api/projects for name "Ad" in category A and again in
\* category B within the same millisecond.
TwinStore ==
    Put(FreshStore, Str_B,
        [json |-> Put(<<>>, FreshMeta.id, [FreshMeta EXCEPT !.category_id = Str_B]),
         md |-> Put(<<>>, FreshMeta.id, <<>>)])

\* DATA_DIR is empty, or holds category A with one legacy file old.md, or with
\* one project as POST /api/projects (and one POST .../versions) left it.
InitStores ==
    {<<>>, FreshStore, VersionedStore, TwinStore} \cup {LegacyStore(c) : c \in LegacyFiles}

Categories == {Str_A, Str_B}
ProjectIds == {Str_old} \cup {baseNameOf(Str_Ad, t) : t \in 1..MaxClock}
Contents == {<<Text("Buy now")>>, <<Text("Buy now v2")>>}
PutBodies ==
    {PutBody({"name"}, Str_New, <<>>, <<>>),
     PutBody({"name", "description", "tags", "is_favorite"}, <<>>, <<>>, <<>>),
     PutBody({"current_content"}, <<>>, <<Text("Edited")>>, <<>>),
     PutBody({"category_id"}, <<>>, <<>>, Str_A),
     PutBody({"category_id"}, <<>>, <<>>, Str_B),
     PutBody({"category_id", "current_content"}, <<>>, <<Text("Edited")>>, Str_B)}

\* The request bodies and contents the narrower specifications send.
NameOnly == PutBody({"name"}, Str_New, <<>>, <<>>)
ContentOnly == PutBody({"current_content"}, <<>>, <<Text("Edited")>>, <<>>)
MoveToB == PutBody({"category_id"}, <<>>, <<>>, Str_B)
MoveBodies == {PutBody({"category_id"}, <<>>, <<>>, c) : c \in Categories}
FirstContent == <<Text("Buy now")>>
NextContent == <<Text("Buy now v2")>>

Init ==
    /\ fs \in InitStores
    /\ now = 1
    /\ req = [s \in Slots |-> Idle]
    /\ ops = 0
    /\ faults = 0
    /\ hist = [overlap |-> FALSE, last |-> NoLast, returned |-> <<>>]

\* One filesystem call of the handler in slot s.
Step(s) ==
    \/ Respond(s)
    \/ CreateEnsureDir(s) \/ CreateWriteJson(s) \/ CreateWriteMd(s)
    \/ Readdir(s) \/ ScanStat(s) \/ ScanMd(s) \/ ScanJson(s)
    \/ MigrateRead(s) \/ MigrateWriteJson(s) \/ MigrateWriteMd(s)
    \/ ReadChkJson(s) \/ ReadJson(s) \/ ReadChkMd(s) \/ ReadMd(s)
    \/ ReadChkLegacy(s) \/ ReadMdNull(s)
    \/ PutChkMd(s) \/ ChkJson(s) \/ LoadJson(s)
    \/ PutWriteMd(s) \/ PutWriteJson(s) \/ PutEnsureDir(s) \/ PutMoveJson(s)
    \/ PutChkMdMove(s) \/ PutMoveMd(s) \/ PutWriteJsonNew(s)
    \/ FavoriteWriteJson(s) \/ AppendWriteJson(s) \/ AppendWriteMd(s)
    \/ VersionsChkJson(s) \/ VersionsReadJson(s)
    \/ DeleteChkMd(s) \/ DeleteUnlinkMd(s) \/ DeleteChkJson(s) \/ DeleteUnlinkJson(s)
    \/ CategoryCreateChk(s) \/ CategoryCreateEnsureDir(s) \/ CategoryCreateWriteJson(s)
    \/ CategoryRenameChkOld(s) \/ CategoryRenameChkNew(s) \/ CategoryRename(s)
    \/ CategoryRenameChkMeta(s) \/ CategoryRenameReadJson(s)
    \/ CategoryRenameWriteJson(s)
    \/ CategoryDeleteChk(s) \/ CategoryDeleteRemove(s)
    \/ IOFault(s)

\* A request arrives in slot s while fewer than par requests are in flight.
Start(s, par) ==
    \/ \E name \in {<<>>, Str_Ad}, c \in Categories \cup {<<>>} :
         StartCreateProject(s, par, name, c)
    \/ \E id \in ProjectIds : StartGet(s, par, id)
    \/ \E id \in ProjectIds, body \in PutBodies : StartPut(s, par, id, body)
    \/ \E id \in ProjectIds : StartFavorite(s, par, id)
    \/ \E id \in ProjectIds, c \in Contents : StartAppend(s, par, id, c)
    \/ \E id \in ProjectIds : StartVersions(s, par, id)
    \/ \E id \in ProjectIds : StartDelete(s, par, id)
    \/ \E name \in Categories \cup {<<>>} :
         StartCreateCategory(s, par, name, Undefined, Undefined)
    \/ \E old \in Categories, name \in Categories :
         StartRenameCategory(s, par, old, name, Undefined, Undefined)
    \/ \E name \in Categories : StartDeleteCategory(s, par, name)

\* Requests served one after the other.
Next == Start("r1", 1) \/ Step("r1")

Spec == Init /\ [][Next]_vars

-----------------------------------------------------------------------------
(* Requests on one project handled concurrently: each handler is suspended  *)
(* at every filesystem call and others run meanwhile.                       *)

TheProject == baseNameOf(Str_Ad, 1)

InitConc ==
    /\ fs \in {FreshStore, VersionedStore}
    /\ now = 1
    /\ req = [s \in Slots |-> Idle]
    /\ ops = 0
    /\ faults = 0
    /\ hist = [overlap |-> FALSE, last |-> NoLast, returned |-> <<>>]

\* read, updateMetadata, toggleFavorite, version append and version list
StartConc(s) ==
    \/ StartGet(s, 2, TheProject)
    \/ StartPut(s, 2, TheProject, NameOnly)
    \/ StartFavorite(s, 2, TheProject)
    \/ StartAppend(s, 2, TheProject, NextContent)
    \/ StartVersions(s, 2, TheProject)

StepConc(s) ==
    \/ Respond(s)
    \/ Readdir(s) \/ ScanStat(s) \/ ScanMd(s)
    \/ ReadChkJson(s) \/ ReadJson(s) \/ ReadChkMd(s) \/ ReadMd(s)
    \/ PutChkMd(s) \/ ChkJson(s) \/ LoadJson(s)
    \/ PutWriteJson(s) \/ FavoriteWriteJson(s)
    \/ AppendWriteJson(s) \/ AppendWriteMd(s)
    \/ VersionsChkJson(s) \/ VersionsReadJson(s)

\* A request takes the first free slot.
NextConc ==
    \/ StartConc("r1")
    \/ req["r1"].pc # "idle" /\ StartConc("r2")
    \/ \E s \in Slots : StepConc(s)

SpecConc == InitConc /\ [][NextConc]_vars

-----------------------------------------------------------------------------
(* Requests on one Legacy project handled concurrently: each of them may    *)
(* find the metadata file missing and run the migration.                    *)

\* A legacy file whose body opens with a delimited block of its own.
LegacyNested ==
    <<Delim, Field("name", Str_Old), Delim,
      Delim, Field("tags", <<"x">>), Delim, Text("Hello")>>

InitMigrate ==
    /\ fs \in {LegacyStore(LegacyFull), LegacyStore(LegacyNested)}
    /\ now = 1
    /\ req = [s \in Slots |-> Idle]
    /\ ops = 0
    /\ faults = 0
    /\ hist = [overlap |-> FALSE, last |-> NoLast, returned |-> <<>>]

StartMigrate(s) ==
    \/ StartGet(s, 2, Str_old)
    \/ StartFavorite(s, 2, Str_old)

StepMigrate(s) ==
    \/ Respond(s)
    \/ Readdir(s) \/ ScanStat(s) \/ ScanMd(s)
    \/ MigrateRead(s) \/ MigrateWriteJson(s) \/ MigrateWriteMd(s)
    \/ ReadChkJson(s) \/ ReadJson(s) \/ ReadChkMd(s) \/ ReadMd(s)
    \/ ReadChkLegacy(s) \/ ReadMdNull(s)
    \/ ChkJson(s) \/ LoadJson(s) \/ FavoriteWriteJson(s)

NextMigrate ==
    \/ StartMigrate("r1")
    \/ req["r1"].pc # "idle" /\ StartMigrate("r2")
    \/ \E s \in Slots : StepMigrate(s)

SpecMigrate == InitMigrate /\ [][NextMigrate]_vars

-----------------------------------------------------------------------------
(* Project creates, moves and category operations, one request at a time,   *)
(* on a store that starts empty.                                            *)

InitCreate ==
    /\ fs = <<>>
    /\ now = 1
    /\ req = [s \in Slots |-> Idle]
    /\ ops = 0
    /\ faults = 0
    /\ hist = [overlap |-> FALSE, last |-> NoLast, returned |-> <<>>]

StartCreate(s) ==
    \/ \E c \in Categories : StartCreateProject(s, 2, Str_Ad, c)
    \/ \E id \in ProjectIds \ {Str_old}, body \in MoveBodies :
         StartPut(s, 2, id, body)
    \/ \E name \in Categories : StartCreateCategory(s, 2, name, Undefined, Undefined)
    \/ \E old \in Categories, name \in Categories :
         StartRenameCategory(s, 2, old, name, Undefined, Undefined)
    \/ \E name \in Categories : StartDeleteCategory(s, 2, name)

StepCreate(s) ==
    \/ Respond(s)
    \/ CreateEnsureDir(s) \/ CreateWriteJson(s) \/ CreateWriteMd(s)
    \/ Readdir(s) \/ ScanMd(s) \/ ScanJson(s)
    \/ PutChkMd(s) \/ ChkJson(s) \/ LoadJson(s) \/ PutWriteJson(s)
    \/ PutEnsureDir(s) \/ PutMoveJson(s) \/ PutChkMdMove(s) \/ PutMoveMd(s)
    \/ PutWriteJsonNew(s)
    \/ ReadChkJson(s) \/ ReadJson(s) \/ ReadChkMd(s) \/ ReadMd(s)
    \/ CategoryCreateChk(s) \/ CategoryCreateEnsureDir(s) \/ CategoryCreateWriteJson(s)
    \/ CategoryRenameChkOld(s) \/ CategoryRenameChkNew(s) \/ CategoryRename(s)
    \/ CategoryRenameChkMeta(s) \/ CategoryRenameReadJson(s)
    \/ CategoryRenameWriteJson(s)
    \/ CategoryDeleteChk(s) \/ CategoryDeleteRemove(s)

\* Only the first slot is used: no two requests are ever in flight.
NextCreate == StartCreate("r1") \/ StepCreate("r1")

SpecCreate == InitCreate /\ [][NextCreate]_vars

-----------------------------------------------------------------------------
(* Category list, create, rename and reorder, one request at a time.        *)

\* The sidecar POST /api/categories writes for name at time t.
CreatedSidecar(name, t) ==
    [id |-> name, name |-> name, color |-> "blue", icon |-> Null, sort_order |-> t]

\* Category A as POST /api/categories made it at time 1, with the project
\* POST /api/projects put in it, next to a directory whose name starts with a
\* dot.
CategoryStore ==
    Put(writeJson(FreshStore, Str_A, Str_category, CreatedSidecar(Str_A, 1)),
        Str_Dot, EmptyDir)

Colors == {Undefined, "red"}
ReorderA == <<[id |-> Str_A, sort_order |-> 0]>>
Reorders ==
    {ReorderA,
     <<[id |-> Str_B, sort_order |-> 0], [id |-> Str_A, sort_order |-> 100]>>}

InitCat ==
    /\ fs \in {<<>>, CategoryStore, TwinStore}
    /\ now = 1
    /\ req = [s \in Slots |-> Idle]
    /\ ops = 0
    /\ faults = 0
    /\ hist = [overlap |-> FALSE, last |-> NoLast, returned |-> <<>>]

StartCat(s) ==
    \/ StartListCategories(s, 2)
    \/ \E name \in Categories, color \in Colors :
         StartCreateCategory(s, 2, name, color, Undefined)
    \/ \E old \in Categories, name \in Categories \cup {Str_C}, color \in Colors :
         StartRenameCategory(s, 2, old, name, color, Undefined)
    \/ \E items \in Reorders : StartReorder(s, 2, items)

StepCat(s) ==
    \/ Respond(s)
    \/ ListReaddir(s) \/ ListChkMeta(s) \/ ListReadJson(s)
    \/ CategoryCreateChk(s) \/ CategoryCreateEnsureDir(s) \/ CategoryCreateWriteJson(s)
    \/ CategoryRenameChkOld(s) \/ CategoryRenameChkNew(s) \/ CategoryRename(s)
    \/ CategoryRenameChkMeta(s) \/ CategoryRenameReadJson(s)
    \/ CategoryRenameWriteJson(s)
    \/ ReorderChkDir(s) \/ ReorderChkMeta(s) \/ ReorderReadJson(s)
    \/ ReorderWriteJson(s)
    \/ IOFault(s)

\* Only the first slot is used: no two requests are ever in flight.
NextCat == StartCat("r1") \/ StepCat("r1")

SpecCat == InitCat /\ [][NextCat]_vars

-----------------------------------------------------------------------------
(* Category list, create, rename and reorder handled concurrently.          *)

InitCatConc ==
    /\ fs = Put(<<>>, Str_B, [EmptyDir EXCEPT !.json =
                                 Put(@, Str_category, CreatedSidecar(Str_B, 1))])
    /\ now = 1
    /\ req = [s \in Slots |-> Idle]
    /\ ops = 0
    /\ faults = 0
    /\ hist = [overlap |-> FALSE, last |-> NoLast, returned |-> <<>>]

StartCatConc(s) ==
    \/ StartListCategories(s, 2)
    \/ StartCreateCategory(s, 2, Str_B, Undefined, Undefined)
    \/ \E old \in Categories, name \in Categories :
         StartRenameCategory(s, 2, old, name, Undefined, Undefined)
    \/ StartReorder(s, 2, ReorderA)

StepCatConc(s) ==
    \/ Respond(s)
    \/ ListReaddir(s) \/ ListChkMeta(s) \/ ListReadJson(s)
    \/ CategoryCreateChk(s) \/ CategoryCreateEnsureDir(s) \/ CategoryCreateWriteJson(s)
    \/ CategoryRenameChkOld(s) \/ CategoryRenameChkNew(s) \/ CategoryRename(s)
    \/ CategoryRenameChkMeta(s) \/ CategoryRenameReadJson(s)
    \/ CategoryRenameWriteJson(s)
    \/ ReorderChkDir(s) \/ ReorderChkMeta(s) \/ ReorderReadJson(s)
    \/ ReorderWriteJson(s)

\* A request takes the first free slot.
NextCatConc ==
    \/ StartCatConc("r1")
    \/ req["r1"].pc # "idle" /\ StartCatConc("r2")
    \/ \E s \in Slots : StepCatConc(s)

SpecCatConc == InitCatConc /\ [][NextCatConc]_vars

-----------------------------------------------------------------------------
(* Updates of different fields of one Split project handled concurrently.   *)

DescriptionOnly == PutBody({"description"}, <<>>, <<>>, <<>>)

InitLost ==
    /\ fs = FreshStore
    /\ now = 1
    /\ req = [s \in Slots |-> Idle]
    /\ ops = 0
    /\ faults = 0
    /\ hist = [overlap |-> FALSE, last |-> NoLast, returned |-> <<>>]

StartLost(s) ==
    \/ StartPut(s, 2, TheProject, NameOnly)
    \/ StartPut(s, 2, TheProject, DescriptionOnly)

StepLost(s) ==
    \/ Respond(s)
    \/ Readdir(s) \/ ScanMd(s) \/ PutChkMd(s) \/ ChkJson(s) \/ LoadJson(s)
    \/ PutWriteJson(s)
    \/ ReadChkJson(s) \/ ReadJson(s) \/ ReadChkMd(s) \/ ReadMd(s)

\* A request takes the first free slot.
NextLost ==
    \/ StartLost("r1")
    \/ req["r1"].pc # "idle" /\ StartLost("r2")
    \/ \E s \in Slots : StepLost(s)

SpecLost == InitLost /\ [][NextLost]_vars

-----------------------------------------------------------------------------
(* Lookups of one project handled concurrently with category renames and    *)
(* moves of the project.                                                    *)

\* Category A is empty, category B holds the project.
RaceStore ==
    Put(Put(<<>>, Str_A, EmptyDir), Str_B,
        [json |-> Put(<<>>, FreshMeta.id, [FreshMeta EXCEPT !.category_id = Str_B]),
         md |-> Put(<<>>, FreshMeta.id, <<>>)])

InitRace ==
    /\ fs = RaceStore
    /\ now = 1
    /\ req = [s \in Slots |-> Idle]
    /\ ops = 0
    /\ faults = 0
    /\ hist = [overlap |-> FALSE, last |-> NoLast, returned |-> <<>>]

StartRace(s) ==
    \/ StartGet(s, 2, TheProject)
    \/ \E body \in MoveBodies :
         StartPut(s, 2, TheProject, body)
    \/ \E old \in Categories :
         StartRenameCategory(s, 2, old, Str_C, Undefined, Undefined)

StepRace(s) ==
    \/ Respond(s)
    \/ Readdir(s) \/ ScanStat(s) \/ ScanMd(s) \/ ScanJson(s)
    \/ ReadChkJson(s) \/ ReadJson(s) \/ ReadChkMd(s) \/ ReadMd(s)
    \/ PutChkMd(s) \/ ChkJson(s) \/ LoadJson(s)
    \/ PutWriteJson(s) \/ PutEnsureDir(s) \/ PutMoveJson(s)
    \/ PutChkMdMove(s) \/ PutMoveMd(s) \/ PutWriteJsonNew(s)
    \/ CategoryRenameChkOld(s) \/ CategoryRenameChkNew(s) \/ CategoryRename(s)
    \/ CategoryRenameChkMeta(s) \/ CategoryRenameReadJson(s)
    \/ CategoryRenameWriteJson(s)

\* A request takes the first free slot.
NextRace ==
    \/ StartRace("r1")
    \/ req["r1"].pc # "idle" /\ StartRace("r2")
    \/ \E s \in Slots : StepRace(s)

SpecRace == InitRace /\ [][NextRace]_vars

-----------------------------------------------------------------------------
(* Requests on a basename that more than one directory holds, one request   *)
(* at a time.                                                               *)

\* The twin store with directory A under a name that starts with a dot.
DotTwinStore == renameDir(TwinStore, Str_A, Str_Dot)

\* A holds the basename as a legacy file, B as a Split project.
LegacyTwinStore ==
    Put(Put(<<>>, Str_A, [EmptyDir EXCEPT !.md = Put(@, TheProject, LegacyFull)]),
        Str_B, TwinStore[Str_B])

\* A holds the basename as a Split project, B as a legacy file.
HalfTwinStore ==
    Put(FreshStore, Str_B, [EmptyDir EXCEPT !.md = Put(@, TheProject, LegacyFull)])

InitShadow ==
    /\ fs \in {TwinStore, DotTwinStore, LegacyTwinStore, HalfTwinStore}
    /\ now = 1
    /\ req = [s \in Slots |-> Idle]
    /\ ops = 0
    /\ faults = 0
    /\ hist = [overlap |-> FALSE, last |-> NoLast, returned |-> <<>>]

StartShadow(s) ==
    \/ StartGet(s, 1, TheProject)
    \/ \E body \in {NameOnly, ContentOnly} \cup MoveBodies :
         StartPut(s, 1, TheProject, body)
    \/ StartFavorite(s, 1, TheProject)
    \/ StartAppend(s, 1, TheProject, FirstContent)
    \/ StartDelete(s, 1, TheProject)

StepShadow(s) ==
    \/ Respond(s)
    \/ Readdir(s) \/ ScanStat(s) \/ ScanMd(s) \/ ScanJson(s)
    \/ MigrateRead(s) \/ MigrateWriteJson(s) \/ MigrateWriteMd(s)
    \/ ReadChkJson(s) \/ ReadJson(s) \/ ReadChkMd(s) \/ ReadMd(s)
    \/ PutChkMd(s) \/ ChkJson(s) \/ LoadJson(s)
    \/ PutWriteMd(s) \/ PutWriteJson(s) \/ PutEnsureDir(s) \/ PutMoveJson(s)
    \/ PutChkMdMove(s) \/ PutMoveMd(s) \/ PutWriteJsonNew(s)
    \/ FavoriteWriteJson(s) \/ AppendWriteJson(s) \/ AppendWriteMd(s)
    \/ DeleteChkMd(s) \/ DeleteUnlinkMd(s) \/ DeleteChkJson(s) \/ DeleteUnlinkJson(s)
    \/ IOFault(s)

NextShadow == StartShadow("r1") \/ StepShadow("r1")

SpecShadow == InitShadow /\ [][NextShadow]_vars

-----------------------------------------------------------------------------
(* Version appends, updates, favorite toggles and category moves on one     *)
(* created project, handled concurrently.                                   *)

\* Content that opens with a header block of its own, naming versions.
HeadedContent ==
    <<Delim, Field("versions", <<[OldVersion EXCEPT !.version_num = 7]>>), Delim,
      Text("Buy now")>>

InitNumbered ==
    /\ fs = VersionedStore
    /\ now = 1
    /\ req = [s \in Slots |-> Idle]
    /\ ops = 0
    /\ faults = 0
    /\ hist = [overlap |-> FALSE, last |-> NoLast, returned |-> <<>>]

StartNumbered(s) ==
    \/ \E c \in {NextContent, HeadedContent} :
         StartAppend(s, 2, TheProject, c)
    \/ StartPut(s, 2, TheProject, NameOnly)
    \/ StartPut(s, 2, TheProject, MoveToB)
    \/ StartFavorite(s, 2, TheProject)

StepNumbered(s) ==
    \/ Respond(s)
    \/ Readdir(s) \/ ScanMd(s) \/ ScanJson(s)
    \/ MigrateRead(s) \/ MigrateWriteJson(s) \/ MigrateWriteMd(s)
    \/ ReadChkJson(s) \/ ReadJson(s) \/ ReadChkMd(s) \/ ReadMd(s)
    \/ PutChkMd(s) \/ ChkJson(s) \/ LoadJson(s)
    \/ PutWriteJson(s) \/ PutEnsureDir(s) \/ PutMoveJson(s)
    \/ PutChkMdMove(s) \/ PutMoveMd(s) \/ PutWriteJsonNew(s)
    \/ FavoriteWriteJson(s) \/ AppendWriteJson(s) \/ AppendWriteMd(s)

\* A request takes the first free slot.
NextNumbered ==
    \/ StartNumbered("r1")
    \/ req["r1"].pc # "idle" /\ StartNumbered("r2")
    \/ \E s \in Slots : StepNumbered(s)

SpecNumbered == InitNumbered /\ [][NextNumbered]_vars

-----------------------------------------------------------------------------
(* Version appends on one project, handled concurrently.                    *)

InitAppends ==
    /\ fs \in {FreshStore, VersionedStore}
    /\ now = 1
    /\ req = [s \in Slots |-> Idle]
    /\ ops = 0
    /\ faults = 0
    /\ hist = [overlap |-> FALSE, last |-> NoLast, returned |-> <<>>]

StartAppends(s) ==
    \E c \in Contents : StartAppend(s, 2, TheProject, c)

StepAppends(s) ==
    \/ Respond(s)
    \/ Readdir(s) \/ ScanMd(s)
    \/ ChkJson(s) \/ LoadJson(s)
    \/ AppendWriteJson(s) \/ AppendWriteMd(s)

\* A request takes the first free slot.
NextAppends ==
    \/ StartAppends("r1")
    \/ req["r1"].pc # "idle" /\ StartAppends("r2")
    \/ \E s \in Slots : StepAppends(s)

SpecAppends == InitAppends /\ [][NextAppends]_vars

-----------------------------------------------------------------------------
(* A project delete handled concurrently with updates, favorite toggles,    *)
(* version appends and reads of the same project.                           *)

InitDeleted ==
    /\ fs = VersionedStore
    /\ now = 1
    /\ req = [s \in Slots |-> Idle]
    /\ ops = 0
    /\ faults = 0
    /\ hist = [overlap |-> FALSE, last |-> NoLast, returned |-> <<>>]

StartDeleted(s) ==
    \/ StartDelete(s, 2, TheProject)
    \/ StartGet(s, 2, TheProject)
    \/ StartPut(s, 2, TheProject, NameOnly)
    \/ StartFavorite(s, 2, TheProject)
    \/ StartAppend(s, 2, TheProject, NextContent)

StepDeleted(s) ==
    \/ Respond(s)
    \/ Readdir(s) \/ ScanStat(s) \/ ScanMd(s) \/ ScanJson(s)
    \/ MigrateRead(s)
    \/ ReadChkJson(s) \/ ReadJson(s) \/ ReadChkMd(s) \/ ReadMd(s)
    \/ ReadChkLegacy(s) \/ ReadMdNull(s)
    \/ PutChkMd(s) \/ ChkJson(s) \/ LoadJson(s)
    \/ PutWriteJson(s) \/ FavoriteWriteJson(s)
    \/ AppendWriteJson(s) \/ AppendWriteMd(s)
    \/ DeleteChkMd(s) \/ DeleteUnlinkMd(s) \/ DeleteChkJson(s) \/ DeleteUnlinkJson(s)

\* A request takes the first free slot.
NextDeleted ==
    \/ StartDeleted("r1")
    \/ req["r1"].pc # "idle" /\ StartDeleted("r2")
    \/ \E s \in Slots : StepDeleted(s)

SpecDeleted == InitDeleted /\ [][NextDeleted]_vars

-----------------------------------------------------------------------------
(* Project requests, one at a time, on a store whose category has a         *)
(* sidecar; the id of a request may be the sidecar's basename.              *)

InitSidecar ==
    /\ fs = CategoryStore
    /\ now = 1
    /\ req = [s \in Slots |-> Idle]
    /\ ops = 0
    /\ faults = 0
    /\ hist = [overlap |-> FALSE, last |-> NoLast, returned |-> <<>>]

StartSidecar(s) ==
    \E id \in {TheProject, Str_category} :
        \/ StartGet(s, 1, id)
        \/ StartPut(s, 1, id, NameOnly)
        \/ StartFavorite(s, 1, id)
        \/ StartAppend(s, 1, id, FirstContent)
        \/ StartDelete(s, 1, id)

StepSidecar(s) ==
    \/ Respond(s)
    \/ Readdir(s) \/ ScanStat(s) \/ ScanMd(s) \/ ScanJson(s)
    \/ ReadChkJson(s) \/ ReadJson(s) \/ ReadChkMd(s) \/ ReadMd(s)
    \/ PutChkMd(s) \/ ChkJson(s) \/ LoadJson(s)
    \/ PutWriteJson(s) \/ FavoriteWriteJson(s)
    \/ AppendWriteJson(s) \/ AppendWriteMd(s)
    \/ DeleteChkMd(s) \/ DeleteUnlinkMd(s) \/ DeleteChkJson(s) \/ DeleteUnlinkJson(s)

NextSidecar == StartSidecar("r1") \/ StepSidecar("r1")

SpecSidecar == InitSidecar /\ [][NextSidecar]_vars

-----------------------------------------------------------------------------
(* Category creates with one name, handled concurrently.                    *)

InitCreateRace ==
    /\ fs \in {<<>>, FreshStore}
    /\ now = 1
    /\ req = [s \in Slots |-> Idle]
    /\ ops = 0
    /\ faults = 0
    /\ hist = [overlap |-> FALSE, last |-> NoLast, returned |-> <<>>]

StartCreateRace(s) ==
    \E color \in Colors : StartCreateCategory(s, 2, Str_B, color, Undefined)

StepCreateRace(s) ==
    \/ Respond(s)
    \/ CategoryCreateChk(s) \/ CategoryCreateEnsureDir(s) \/ CategoryCreateWriteJson(s)

\* A request takes the first free slot.
NextCreateRace ==
    \/ StartCreateRace("r1")
    \/ req["r1"].pc # "idle" /\ StartCreateRace("r2")
    \/ \E s \in Slots : StepCreateRace(s)

SpecCreateRace == InitCreateRace /\ [][NextCreateRace]_vars

-----------------------------------------------------------------------------
(* Properties *)

Finished(s, op) == req[s].pc = "done" /\ req[s].op = op
Succeeded(s, op) == Finished(s, op) /\ req[s].res.status = 200
Quiescent == \A s \in Slots : ~InFlight(s)

\* The project files of directory d: every <id>.json but the sidecar.
ProjectsIn(f, d) == DOMAIN f[d].json \ {Str_category}

\* C1: when a PUT that moves a project from category A to another category B
\* has answered 200, the metadata file is in B and says category_id = B, the
\* content file (if there was one to move) is in B, and A holds neither file.
C1_MoveLeavesNothingBehind ==
    \A s \in Slots :
        (Succeeded(s, "put") /\ IsMove(req[s])) =>
            LET r == req[s]
                A == r.cat
                B == r.body.category_id
            IN  /\ jsonExists(fs, B, r.id)
                /\ fs[B].json[r.id].category_id = B
                /\ (mdExists(r.pre, A, r.id) \/ "current_content" \in r.body.has)
                      => mdExists(fs, B, r.id)
                /\ ~jsonExists(fs, A, r.id)
                /\ ~mdExists(fs, A, r.id)

\* A project made by POST /api/projects in A has been moved to B, content included.
C1_Witness ==
    \E s \in Slots :
        /\ Succeeded(s, "put") /\ IsMove(req[s])
        /\ req[s].cat = Str_A /\ req[s].body.category_id = Str_B
        /\ req[s].id = baseNameOf(Str_Ad, 1)
        /\ mdExists(req[s].pre, Str_A, req[s].id)
        /\ mdExists(fs, Str_B, req[s].id)

\* C2: whenever no request is in flight and no filesystem call has failed, the
\* category_id stored in each project's metadata file is the name of the
\* directory that holds the file.
C2_CategoryIdIsDirectory ==
    (Quiescent /\ faults = 0) =>
        \A d \in DOMAIN fs : \A id \in ProjectsIn(fs, d) :
            fs[d].json[id].category_id = d

IsPrefix(a, b) == Len(a) <= Len(b) /\ SubSeq(b, 1, Len(a)) = a

\* The versions arrays stored for id in the store f (one per directory that
\* holds a metadata file of that name).
Stored(f, id) ==
    {versionsOf(f[d].json[id]) : d \in {x \in DOMAIN f : jsonExists(f, x, id)}}

\* One step keeps every stored history as a prefix of what is stored after it.
AppendOnlyStep ==
    \A id \in ProjectIds : \A v \in Stored(fs, id) : \A w \in Stored(fs', id) :
        IsPrefix(v, w)

\* C3 as stated: under any interleaving of read, updateMetadata, toggleFavorite,
\* version append and version list on a project, every step leaves the stored
\* versions array an extension of what was stored before it.
C3_AppendOnlyAnyInterleaving == [][AppendOnlyStep]_vars

\* C3, amended: the stored versions array only grows by extension in every step
\* taken while no request in flight has overlapped another one.
C3_AppendOnlyWithoutOverlap ==
    [][(\A s \in Slots : InFlight(s) => req[s].solo) => AppendOnlyStep]_vars

\* An append that overlapped nothing has answered and two versions are stored,
\* the older one first.
C3_Witness ==
    \E s \in Slots :
        /\ Succeeded(s, "append") /\ req[s].solo
        /\ Stored(req[s].pre, req[s].id) = {<<FirstVersion>>}
        /\ Stored(fs, req[s].id) = {<<FirstVersion, req[s].res.body>>}

\* What an append computes from the metadata it reads: in the step that reads
\* the metadata file, version_num is the number of versions stored plus one,
\* and that version is what the append returns.
AppendNumbersFromRead ==
    \A s \in Slots :
        /\ (req[s].op = "append" /\ req[s].pc = "readJson"
               /\ req'[s].pc = "appWriteJson")
              => req'[s].text.version_num
                   = Len(versionsOf(fs[req[s].cat].json[req[s].id])) + 1
        /\ (req[s].op = "append" /\ req[s].pc = "appWriteMd" /\ req'[s].pc = "done"
               /\ req'[s].res.status = 200)
              => req'[s].res.body = req[s].text

\* An answered append returned more than every append on its project that had
\* answered before it arrived, and 1 if it found the project as create left it
\* and ran alone.
AppendAboveFloor(s) ==
    LET r == req[s] IN
    /\ r.res.body.version_num > r.floor
    /\ (r.solo /\ Stored(r.pre, r.id) = {<<>>}) => r.res.body.version_num = 1

\* C4 as stated: version_num is count + 1 at the read, and every answered
\* append returned more than the appends that had answered before it arrived.
C4_VersionNumIncreasingAlways ==
    /\ [][AppendNumbersFromRead]_vars
    /\ [](\A s \in Slots : Succeeded(s, "append") => AppendAboveFloor(s))

\* C4, amended: version_num is count + 1 at the read; it is 1 for the first
\* append on a created project and above every earlier answered append
\* as long as no two requests on the project have overlapped.
C4_VersionNumIncreasingWithoutOverlap ==
    /\ [][AppendNumbersFromRead]_vars
    /\ [](\A s \in Slots :
            (Succeeded(s, "append") /\ ~hist.overlap) => AppendAboveFloor(s))

\* Without any overlap a second append has answered 2 after a first answered 1
\* on the project as create left it.
C4_Witness ==
    \E s \in Slots :
        /\ Succeeded(s, "append") /\ ~hist.overlap
        /\ req[s].floor = 1 /\ req[s].res.body.version_num = 2
        /\ req[s].prev.op = "append"
        /\ Stored(req[s].pre, req[s].id) = {<<req[s].prev.version>>}
        /\ req[s].prev.version.version_num = 1

\* The elements of a sequence
Range(q) == {q[i] : i \in DOMAIN q}

\* C5: a version list answered right after an append of content X on the same
\* project answered (no request in between) holds exactly the stored versions,
\* in descending version_num order, and starts with the version just appended:
\* the highest version_num, content X.
C5_AppendListRoundTrip ==
    \A s \in Slots :
        (/\ Succeeded(s, "versions")
         /\ req[s].prev.op = "append" /\ req[s].prev.id = req[s].id) =>
            LET r == req[s]
                out == r.res.body
                v == r.prev.version
                stored == versionsOf(fs[r.cat].json[r.id])
            IN  /\ Len(out) = Len(stored) /\ Range(out) = Range(stored)
                /\ \A i, j \in DOMAIN out :
                      i < j => out[i].version_num >= out[j].version_num
                /\ out # <<>> /\ out[1] = v
                /\ \A i \in DOMAIN out : out[i].version_num <= v.version_num

\* The project held version 1 ("Buy now"); "Buy now v2" was appended and the
\* list answers [v2, v1].
C5_Witness ==
    \E s \in Slots :
        /\ Succeeded(s, "versions")
        /\ req[s].prev.op = "append" /\ req[s].prev.id = req[s].id
        /\ Len(req[s].res.body) = 2
        /\ req[s].res.body[1].version_num = 2
        /\ req[s].res.body[1].content = <<Text("Buy now v2")>>
        /\ req[s].res.body[2] = FirstVersion

\* Legacy state in store f: the content file is there, the metadata file is not.
IsLegacy(f, d, id) == mdExists(f, d, id) /\ ~jsonExists(f, d, id)

\* The content file opens with a header that carries at least one field.
HasHeader(c) == DOMAIN matter(c).data # {}

\* The header's value for key k, or the default.
HeaderOr(h, k, default) == IF k \in DOMAIN h THEN h[k] ELSE default

\* The request in slot s found its project in Legacy state with a header.
OnLegacyWithHeader(s) ==
    /\ req[s].cat # <<>>
    /\ IsLegacy(req[s].pre, req[s].cat, req[s].id)
    /\ HasHeader(req[s].pre[req[s].cat].md[req[s].id])

\* C6: a read that answered 200 on a project it found in Legacy state with a
\* non-empty header has written a metadata file with the header's fields and
\* the defaults (id and name: the basename, tags and versions: empty,
\* is_favorite: false, category_id: the directory), has left in the content
\* file exactly the body that followed the header, and has returned that
\* metadata with current_content = the body.
C6_FirstReadMigrates ==
    \A s \in Slots :
        (Succeeded(s, "get") /\ OnLegacyWithHeader(s)) =>
            LET r == req[s]
                orig == r.pre[r.cat].md[r.id]
                h == matter(orig).data
                out == r.res.body
            IN  /\ jsonExists(fs, r.cat, r.id) /\ mdExists(fs, r.cat, r.id)
                /\ LET m == fs[r.cat].json[r.id]
                       B == fs[r.cat].md[r.id]
                   IN  /\ m.id = HeaderOr(h, "id", r.id)
                       /\ m.name = HeaderOr(h, "name", r.id)
                       /\ m.tags = HeaderOr(h, "tags", <<>>)
                       /\ m.is_favorite = HeaderOr(h, "is_favorite", FALSE)
                       /\ m.versions = HeaderOr(h, "versions", <<>>)
                       /\ m.category_id = r.cat
                       /\ \E k \in 2..Len(orig) :
                             /\ orig[1] = Delim /\ orig[k] = Delim
                             /\ \A i \in 2..(k - 1) : orig[i].kind = "field"
                             /\ B = SubSeq(orig, k + 1, Len(orig))
                       /\ \A i \in DOMAIN B : B[i].kind = "text"
                       /\ DOMAIN out = DOMAIN m \cup {"current_content"}
                       /\ \A f \in DOMAIN m : out[f] = m[f]
                       /\ out.current_content = B

\* old.md with the header name: Old, tags: [a, b] and the body Hello has been
\* read: old.json holds them and old.md holds Hello.
C6_Witness ==
    \E s \in Slots :
        /\ Succeeded(s, "get") /\ OnLegacyWithHeader(s)
        /\ req[s].pre = LegacyStore(LegacyFull)
        /\ fs[Str_A].json[Str_old].name = Str_Old
        /\ fs[Str_A].json[Str_old].tags = <<"a", "b">>
        /\ fs[Str_A].json[Str_old].id = Str_old
        /\ fs[Str_A].md[Str_old] = <<Text("Hello")>>
        /\ req[s].res.body.current_content = <<Text("Hello")>>

MigrationPcs == {"migRead", "migWriteJson", "migWriteMd"}

\* C7: when a filesystem step of a migration has failed, the caller has got an
\* error, the content file still holds what it held (header and body), and no
\* metadata file is left for that basename.
C7_FailedMigrationLeavesLegacy ==
    \A s \in Slots :
        (req[s].pc = "done" /\ req[s].at \in MigrationPcs) =>
            LET r == req[s] IN
            /\ r.res.status = 500
            /\ mdExists(fs, r.dir, r.id)
            /\ fs[r.dir].md[r.id] = r.pre[r.dir].md[r.id]
            /\ ~jsonExists(fs, r.dir, r.id)

MigratingOps == {"get", "put", "favorite", "append"}

\* A request of one of the four operations has answered 200 and a metadata
\* file for its id exists (in the directory a move took it to, if it moved).
NowSplit(s) == \E d \in DOMAIN fs : jsonExists(fs, d, req[s].id)

CreateIsSplit ==
    \A s \in Slots :
        Succeeded(s, "create") =>
            /\ jsonExists(fs, req[s].body.category_id, req[s].id)
            /\ mdExists(fs, req[s].body.category_id, req[s].id)

\* C8 as stated: whatever Legacy project a read, updateMetadata, toggleFavorite
\* or version append found and answered 200 for has its metadata file
\* afterwards; and a project create answered 200 for has both files.
C8_LegacyBecomesSplit ==
    /\ \A s \in Slots :
          (/\ req[s].op \in MigratingOps /\ Succeeded(s, req[s].op)
           /\ req[s].cat # <<>> /\ IsLegacy(req[s].pre, req[s].cat, req[s].id))
             => NowSplit(s)
    /\ CreateIsSplit

\* C8, amended: the same for Legacy projects whose content file has a
\* non-empty header.
C8_LegacyWithHeaderBecomesSplit ==
    /\ \A s \in Slots :
          (/\ req[s].op \in MigratingOps /\ Succeeded(s, req[s].op)
           /\ OnLegacyWithHeader(s))
             => NowSplit(s)
    /\ CreateIsSplit

\* toggleFavorite has answered 200 on old.md, found with a header and without
\* metadata file, and old.json is there.
C8_Witness ==
    \E s \in Slots :
        /\ Succeeded(s, "favorite") /\ OnLegacyWithHeader(s)
        /\ jsonExists(fs, Str_A, Str_old)
        /\ ~jsonExists(req[s].pre, Str_A, Str_old)

\* C9: while a request runs on a project whose metadata file existed when the
\* request arrived, and no filesystem call has failed, no directory holds the
\* project's content file without its metadata file.
C9_NeverLooksLegacyAgain ==
    \A s \in Slots :
        (/\ req[s].pc # "idle" /\ faults = 0
         /\ req[s].op \in {"put", "delete", "append", "favorite", "get", "versions"}
         /\ \E d \in DOMAIN req[s].pre : jsonExists(req[s].pre, d, req[s].id))
            => ~\E d \in DOMAIN fs : IsLegacy(fs, d, req[s].id)

\* The request in slot s has located its project, which was Legacy with a
\* content file carrying no header field when the request arrived.
OnLegacyWithoutHeader(s) ==
    /\ req[s].pc # "idle" /\ req[s].op \in MigratingOps \cup {"versions"}
    /\ req[s].cat # <<>>
    /\ IsLegacy(req[s].pre, req[s].cat, req[s].id)
    /\ ~HasHeader(req[s].pre[req[s].cat].md[req[s].id])

\* C10: on a Legacy content file with an empty header, migrate never gets to
\* its writes and returns null, the store stays as the request found it, and a
\* read answers the default record: id = name = basename, no tags, not
\* favorite, no versions, current_content = the body of the content file.
C10_EmptyHeaderReadWritesNothing ==
    \A s \in Slots :
        OnLegacyWithoutHeader(s) =>
            LET r == req[s] IN
            /\ fs = r.pre
            /\ r.pc \notin {"migWriteJson", "migWriteMd"}
            /\ r.pc = "rpfReadMdNull" => r.meta = NoMeta
            /\ Finished(s, "get") =>
                  /\ r.res.status = 200
                  /\ r.res.body.id = r.id /\ r.res.body.name = r.id
                  /\ r.res.body.tags = <<>> /\ r.res.body.versions = <<>>
                  /\ r.res.body.is_favorite = FALSE
                  /\ r.res.body.category_id = r.cat
                  /\ r.res.body.current_content = matter(r.pre[r.cat].md[r.id]).content

\* old.md with an empty header has been read by the second request served:
\* the answer carries the body Hello and the store is as it started.
C10_Witness ==
    \E s \in Slots :
        /\ Succeeded(s, "get") /\ ops = 2
        /\ req[s].pre = LegacyStore(LegacyEmptyHeader)
        /\ fs = LegacyStore(LegacyEmptyHeader)
        /\ req[s].res.body.current_content = <<Text("Hello")>>

\* The basename of the request in slot s has been migrated: its metadata file
\* exists and no migration is between its two writes.
AlreadyMigrated(s) ==
    /\ jsonExists(fs, req[s].dir, req[s].id)
    /\ \A x \in Slots : req[x].pc # "migWriteMd"

\* C11: a run of migrateToSplitFormat that reads the content file of a basename
\* already migrated finds no header data: it returns null without getting to
\* its writes, so that metadata file and content file stay as they are.
C11_SecondMigrationIsNoOp ==
    [][\A s \in Slots :
          (req[s].pc = "migRead" /\ req'[s] # req[s] /\ AlreadyMigrated(s))
             => (req'[s].pc \notin {"migWriteJson", "migWriteMd"} /\ fs' = fs)]_vars

\* The request in slot s found its project in Split state in the directory it
\* located.
OnSplit(s) == req[s].cat # <<>> /\ jsonExists(req[s].pre, req[s].cat, req[s].id)

\* C12: a toggleFavorite that answered 200 on a Split project has stored the
\* negation of the is_favorite it found and has changed no other field but
\* possibly updated_at; directly after another toggleFavorite on the same
\* project, it has restored the value stored before that one.
C12_ToggleFlipsOnce ==
    \A s \in Slots :
        (Succeeded(s, "favorite") /\ OnSplit(s)) =>
            LET r == req[s]
                before == r.pre[r.cat].json[r.id]
                after == fs[r.cat].json[r.id]
            IN  /\ after.is_favorite = ~before.is_favorite
                /\ DOMAIN after = DOMAIN before
                /\ \A k \in DOMAIN before \ {"is_favorite", "updated_at"} :
                      after[k] = before[k]
                /\ (/\ r.prev.op = "favorite" /\ r.prev.id = r.id
                    /\ r.prev.before # NoMeta)
                      => after.is_favorite = r.prev.before.is_favorite

\* Two toggleFavorite calls in a row on the created project: the flag is back
\* to false after having been true.
C12_Witness ==
    \E s \in Slots :
        /\ Succeeded(s, "favorite") /\ OnSplit(s)
        /\ req[s].prev.op = "favorite" /\ req[s].prev.id = req[s].id
        /\ req[s].prev.before = FreshMeta
        /\ req[s].pre[Str_A].json[req[s].id].is_favorite = TRUE
        /\ fs[Str_A].json[req[s].id].is_favorite = FALSE

\* C13: a toggleFavorite that answered 200 on a Split project has stored the
\* time of the call as updated_at.
C13_ToggleSetsUpdatedAt ==
    \A s \in Slots :
        (Succeeded(s, "favorite") /\ OnSplit(s)) =>
            fs[req[s].cat].json[req[s].id].updated_at = now

\* The request in slot s arrived right after a successful updateMetadata (move
\* included), toggleFavorite or version append on the same id had answered.
AfterWriter(s) ==
    req[s].prev.op \in {"put", "favorite", "append"} /\ req[s].prev.id = req[s].id

\* C14: a read or a version list that arrived right after a successful
\* updateMetadata, toggleFavorite, version append or move on its project
\* answers 200 with what that operation left in the files: the read returns
\* the stored metadata and the content file, empty content when the project
\* has no content file (the very record the update or toggle returned; the
\* appended version last in versions and as content),
\* the list returns the stored versions.
C14_CompletedWritesAreVisible ==
    \A s \in Slots :
        LET r == req[s]
            out == r.res.body
        IN  /\ (Finished(s, "get") /\ AfterWriter(s)) =>
                  /\ r.res.status = 200
                  /\ jsonExists(r.pre, r.cat, r.id)
                  /\ DOMAIN out = DOMAIN r.pre[r.cat].json[r.id] \cup {"current_content"}
                  /\ \A k \in DOMAIN r.pre[r.cat].json[r.id] :
                        out[k] = r.pre[r.cat].json[r.id][k]
                  /\ out.current_content =
                        IF mdExists(r.pre, r.cat, r.id) THEN r.pre[r.cat].md[r.id]
                        ELSE <<>>
                  /\ r.prev.op \in {"put", "favorite"} => out = r.prev.res
                  /\ r.prev.op = "append" =>
                        /\ out.versions # <<>>
                        /\ out.versions[Len(out.versions)] = r.prev.version
                        /\ out.current_content = r.prev.version.content
            /\ (Finished(s, "versions") /\ AfterWriter(s)) =>
                  /\ r.res.status = 200
                  /\ Len(out) = Len(r.pre[r.cat].json[r.id].versions)
                  /\ Range(out) = Range(r.pre[r.cat].json[r.id].versions)
                  /\ r.prev.op \in {"put", "favorite"} =>
                        Range(out) = Range(r.prev.res.versions)

\* A read right after an update that moved the project to B and set its
\* content finds it in B and returns the new content.
C14_Witness ==
    \E s \in Slots :
        /\ Succeeded(s, "get") /\ AfterWriter(s)
        /\ req[s].prev.op = "put" /\ req[s].cat = Str_B
        /\ req[s].res.body.category_id = Str_B
        /\ req[s].res.body.current_content = <<Text("Edited")>>

\* The directory a PUT leaves the project in.
Destination(r) == IF IsMove(r) THEN r.body.category_id ELSE r.cat

\* What a PUT that answered 200 on a Split project has done to the fields
\* other than name.
UpdateFrame(s) ==
    LET r == req[s]
        before == r.pre[r.cat].json[r.id]
        after == fs[Destination(r)].json[r.id]
    IN  /\ \A k \in {"description", "tags", "is_favorite"} :
              after[k] = IF k \in r.body.has THEN r.body[k] ELSE before[k]
        /\ after.updated_at = now
        /\ \A k \in {"id", "created_at", "type", "versions"} : after[k] = before[k]
        /\ DOMAIN after = DOMAIN before
        /\ ~IsMove(r) => /\ after.category_id = before.category_id
                         /\ jsonExists(fs, r.cat, r.id)
                         /\ mdExists(fs, r.cat, r.id) = mdExists(r.pre, r.cat, r.id)
                                                        \/ "current_content" \in r.body.has

\* C15 as stated: updateMetadata overwrites exactly the supplied fields among
\* name, description, tags and is_favorite (an empty name included), sets
\* updated_at to now and leaves id, created_at, type, versions and, without a
\* move, category_id and the files' location as they were.
C15_UpdateOverwritesSupplied ==
    \A s \in Slots :
        (Succeeded(s, "put") /\ OnSplit(s)) =>
            /\ UpdateFrame(s)
            /\ fs[Destination(req[s])].json[req[s].id].name
                 = IF "name" \in req[s].body.has THEN req[s].body.name
                   ELSE req[s].pre[req[s].cat].json[req[s].id].name

\* C15, amended: the same, but name is overwritten only by a supplied name
\* that is not the empty string.
C15_UpdateOverwritesSuppliedNonEmptyName ==
    \A s \in Slots :
        (Succeeded(s, "put") /\ OnSplit(s)) =>
            /\ UpdateFrame(s)
            /\ fs[Destination(req[s])].json[req[s].id].name
                 = IF "name" \in req[s].body.has /\ req[s].body.name # <<>>
                   THEN req[s].body.name
                   ELSE req[s].pre[req[s].cat].json[req[s].id].name

\* old.json, migrated with name Old and tags [a, b], has been updated with an
\* empty name, a description, an empty tags list and is_favorite: the name is
\* still Old, the tags are gone.
C15_Witness ==
    \E s \in Slots :
        /\ Succeeded(s, "put") /\ OnSplit(s)
        /\ req[s].body.has = {"name", "description", "tags", "is_favorite"}
        /\ req[s].id = Str_old /\ req[s].cat = Str_A
        /\ req[s].pre[Str_A].json[Str_old].tags = <<"a", "b">>
        /\ fs[Str_A].json[Str_old].tags = <<>>
        /\ fs[Str_A].json[Str_old].name = Str_Old
        /\ fs[Str_A].json[Str_old].description = "d"
        /\ fs[Str_A].json[Str_old].is_favorite = TRUE

\* C16: a PUT carrying current_content = C that answered 200 has left exactly
\* C in the content file, in the target category if it moved the project, and
\* returns C; the versions stored are those stored before; and a read that
\* follows it answers 200 with current_content = C.
C16_UpdateWritesContent ==
    \A s \in Slots :
        LET r == req[s] IN
        /\ (Succeeded(s, "put") /\ "current_content" \in r.body.has) =>
              /\ mdExists(fs, Destination(r), r.id)
              /\ fs[Destination(r)].md[r.id] = r.body.current_content
              /\ r.res.body.current_content = r.body.current_content
              /\ IsMove(r) => ~mdExists(fs, r.cat, r.id)
              /\ OnSplit(s) => fs[Destination(r)].json[r.id].versions
                                  = r.pre[r.cat].json[r.id].versions
        /\ (/\ Finished(s, "get") /\ r.prev.op = "put" /\ r.prev.id = r.id
            /\ "current_content" \in r.prev.body.has) =>
              /\ r.res.status = 200
              /\ r.res.body.current_content = r.prev.body.current_content
              /\ r.res.body.versions = r.prev.res.versions

\* The project with one version has been moved to B with new content: B holds
\* the new content and still the one version.
C16_Witness ==
    \E s \in Slots :
        /\ Succeeded(s, "put") /\ IsMove(req[s]) /\ OnSplit(s)
        /\ req[s].body.current_content = <<Text("Edited")>>
        /\ "current_content" \in req[s].body.has
        /\ req[s].pre = VersionedStore
        /\ fs[Str_B].md[req[s].id] = <<Text("Edited")>>
        /\ fs[Str_B].json[req[s].id].versions = <<FirstVersion>>

\* What a create that has answered has done: with name and category, both
\* files are in the category, the content file is empty, and the record
\* returned is the stored metadata with current_content = ""; without one of
\* them the answer is 400 and the store is as it was.
CreateWrites(s) ==
    LET r == req[s]
        c == r.body.category_id
    IN  /\ (r.body.name = <<>> \/ c = <<>>) => (r.res.status = 400 /\ fs = r.pre)
        /\ r.res.status = 400 => fs = r.pre
        /\ r.res.status = 200 =>
              /\ r.body.name # <<>> /\ c # <<>>
              /\ jsonExists(fs, c, r.id) /\ mdExists(fs, c, r.id)
              /\ fs[c].md[r.id] = <<>>
              /\ r.res.body.current_content = <<>>
              /\ r.res.body.versions = <<>>
              /\ r.res.body.is_favorite = FALSE
              /\ r.res.body.category_id = c
              /\ r.res.body.name = r.body.name
              /\ DOMAIN r.res.body = DOMAIN fs[c].json[r.id] \cup {"current_content"}
              /\ \A k \in DOMAIN fs[c].json[r.id] : r.res.body[k] = fs[c].json[r.id][k]

\* C17: create with name and category writes the metadata file and an empty
\* content file and returns the record; without one of them it answers with a
\* validation error and writes nothing; and a read of the returned id that
\* follows the create answers 200 with the record create returned.
C17_CreateThenRead ==
    \A s \in Slots :
        /\ Finished(s, "create") => CreateWrites(s)
        /\ (Finished(s, "get") /\ req[s].prev.op = "create"
               /\ req[s].prev.id = req[s].id)
              => (req[s].res.status = 200 /\ req[s].res.body = req[s].prev.res)

\* The categories of store f that hold a metadata or a content file named id,
\* and the one of them the scan meets first.
Holders(f, id) ==
    {d \in DOMAIN f : ~startsWithDot(d) /\ (jsonExists(f, d, id) \/ mdExists(f, d, id))}

FirstHolder(f, id) ==
    LET q == readdir(f)
        first == CHOOSE i \in DOMAIN q :
                    /\ q[i] \in Holders(f, id)
                    /\ \A j \in DOMAIN q : q[j] \in Holders(f, id) => i <= j
    IN  q[first]

\* Store g is store f without the two files of id in category d.
WithoutProject(f, g, d, id) ==
    /\ DOMAIN g = DOMAIN f
    /\ \A x \in DOMAIN f \ {d} : g[x] = f[x]
    /\ g[d].json = Drop(f[d].json, id)
    /\ g[d].md = Drop(f[d].md, id)

LocatingOps == {"get", "put", "favorite", "append", "versions", "delete"}

\* C18: a delete whose filesystem calls all succeeded answers ok and has
\* removed both files of the id from the first category that held one, and
\* nothing else, or answers 404 and has changed nothing if no category held
\* one; and a request for the id that follows a delete, the id having been in
\* one category only, answers 404.
C18_DeleteRemovesBothFiles ==
    \A s \in Slots :
        LET r == req[s] IN
        /\ (Finished(s, "delete") /\ r.res.status # 500) =>
              IF Holders(r.pre, r.id) = {}
              THEN r.res.status = 404 /\ fs = r.pre
              ELSE /\ r.res.status = 200
                   /\ WithoutProject(r.pre, fs, FirstHolder(r.pre, r.id), r.id)
        /\ (/\ r.pc = "done" /\ r.op \in LocatingOps
            /\ r.prev.op = "delete" /\ r.prev.id = r.id
            /\ Cardinality(Holders(r.prev.pre, r.id)) = 1)
              => r.res.status = 404

\* The project with one version has been deleted, and the read that follows
\* answers 404.
C18_Witness ==
    \E s \in Slots :
        /\ Finished(s, "get") /\ req[s].res.status = 404
        /\ req[s].prev.op = "delete" /\ req[s].prev.id = req[s].id
        /\ req[s].prev.pre = VersionedStore
        /\ fs = Put(<<>>, Str_A, EmptyDir)

\* The ids of the projects category d of store f holds.
Contained(f, d) ==
    IF dirExists(f, d) THEN (DOMAIN f[d].json \cup DOMAIN f[d].md) \ {Str_category}
    ELSE {}

\* C19: a category delete that answered 200 has removed the directory with
\* all it held and has left the other categories as they were; and a read,
\* update, favorite, append, version list or delete that follows it for the
\* id of a project the category held answers 404 (no filesystem call having
\* failed).
C19_CategoryDeleteRemovesProjects ==
    \A s \in Slots :
        LET r == req[s] IN
        /\ Succeeded(s, "catDelete") =>
              /\ ~dirExists(fs, r.id)
              /\ DOMAIN fs = DOMAIN r.pre \ {r.id}
              /\ \A d \in DOMAIN fs : fs[d] = r.pre[d]
        /\ (/\ r.pc = "done" /\ r.op \in LocatingOps /\ faults = 0
            /\ r.prev.op = "catDelete"
            /\ r.id \in Contained(r.prev.pre, r.prev.id))
              => r.res.status = 404

\* C20: whenever no request is in flight, no project basename has files in
\* two categories, and no create that answered 200 has written over files
\* that existed under its basename.
C20_IdsAreUnique ==
    /\ Quiescent => \A id \in ProjectIds : Cardinality(Holders(fs, id)) <= 1
    /\ \A s \in Slots : Succeeded(s, "create") => Holders(req[s].pre, req[s].id) = {}



\* The entries a category list has answered with, each paired with the
\* directory it was read from.
Listed(s) ==
    IF Succeeded(s, "catList")
    THEN {<<req[s].categories[k], req[s].dirs[k]>> : k \in DOMAIN req[s].categories}
    ELSE {}

\* C21: under any interleaving of category create, rename, reorder and list
\* requests, every entry a category list returns has id and name equal to
\* the name of the directory it was read from.
C21_ListedIdIsDirectoryName ==
    \A s \in Slots : \A e \in Listed(s) : e[1].id = e[2] /\ e[1].name = e[2]


\* The sidecar of directory d in store f, or no fields when it has none.
SidecarOf(f, d) ==
    IF jsonExists(f, d, Str_category) THEN f[d].json[Str_category]
    ELSE [k \in {} |-> Undefined]

\* The request in slot s is a category list that answered 200 and arrived
\* right after a category create had answered 200.
ListAfterCreate(s) ==
    Succeeded(s, "catList") /\ req[s].prev.op = "catCreate"

\* C22 as stated: a category made by category create is listed with
\* sort_order = 99 as long as no reorder has changed it.
C22_CreatedListedAt99 ==
    \A s \in Slots :
        ListAfterCreate(s) =>
            \A e \in Listed(s) : e[2] = req[s].prev.id => e[1].sort_order = 99

\* C22 amended: category create stores and returns the time of the call as
\* sort_order, and a list that follows reports the category with that value;
\* 99 is what a list reports for a directory whose sidecar is missing or has
\* no sort_order.
C22_CreatedListedAtCreationTime ==
    \A s \in Slots :
        /\ Succeeded(s, "catCreate") =>
              /\ req[s].res.body.sort_order = now
              /\ SidecarOf(fs, req[s].id) = req[s].res.body
        /\ ListAfterCreate(s) =>
              /\ \E e \in Listed(s) : e[2] = req[s].prev.id
              /\ \A e \in Listed(s) :
                    e[2] = req[s].prev.id =>
                        e[1].sort_order = req[s].prev.res.sort_order
        /\ \A e \in Listed(s) :
              "sort_order" \notin DOMAIN SidecarOf(req[s].pre, e[2]) =>
                  e[1].sort_order = 99

\* A list right after the create of category B at time 2, in a store that
\* also holds a directory without sidecar: B is listed with 2, the other
\* with 99.
C22_Witness ==
    \E s \in Slots :
        /\ ListAfterCreate(s) /\ req[s].prev.id = Str_B
        /\ \E e \in Listed(s) : e[2] = Str_B /\ e[1].sort_order = 2
        /\ \E e \in Listed(s) :
              /\ "sort_order" \notin DOMAIN SidecarOf(req[s].pre, e[2])
              /\ e[1].sort_order = 99


CategoryKeys == {"id", "name", "color", "icon", "sort_order"}

\* C23: a category list answers 200 with exactly one entry per top-level
\* directory whose name does not start with a dot; each entry carries the
\* sidecar's fields and, for the fields the sidecar lacks, id = name = the
\* directory name, color = 'blue', icon = null, sort_order = 99; the answer
\* holds these entries in ascending sort_order; the list leaves the store as
\* it found it.
C23_ListIsMergedAndSorted ==
    \A s \in Slots :
        Finished(s, "catList") =>
            LET r == req[s]
                out == r.res.body
                visible == {d \in DOMAIN r.pre : ~startsWithDot(d)}
            IN  /\ r.res.status = 200
                /\ Range(r.dirs) = visible
                /\ Len(r.dirs) = Cardinality(visible)
                /\ \A k \in DOMAIN r.categories :
                      LET d == r.dirs[k]
                          side == SidecarOf(r.pre, d)
                          e == r.categories[k]
                      IN  /\ DOMAIN e = CategoryKeys \cup DOMAIN side
                          /\ \A f \in DOMAIN side : e[f] = side[f]
                          /\ "id" \notin DOMAIN side => e.id = d
                          /\ "name" \notin DOMAIN side => e.name = d
                          /\ "color" \notin DOMAIN side => e.color = "blue"
                          /\ "icon" \notin DOMAIN side => e.icon = Null
                          /\ "sort_order" \notin DOMAIN side => e.sort_order = 99
                /\ Len(out) = Len(r.categories)
                /\ Range(out) = Range(r.categories)
                /\ \A i, j \in DOMAIN out :
                      i < j => out[i].sort_order <= out[j].sort_order
                /\ fs = r.pre

\* A list of a store with a dot directory, category A reordered to 100 and
\* category B created after it: B comes first, the dot directory is left out.
C23_Witness ==
    \E s \in Slots :
        /\ Succeeded(s, "catList")
        /\ Str_Dot \in DOMAIN req[s].pre
        /\ Len(req[s].res.body) = 2
        /\ req[s].dirs = <<Str_A, Str_B>>
        /\ req[s].res.body[1].id = Str_B
        /\ req[s].res.body[2].id = Str_A
        /\ req[s].res.body[2].sort_order = 100


\* Store g is store f but for directory d.
SameBut(f, g, d) ==
    /\ DOMAIN g \ {d} = DOMAIN f \ {d}
    /\ \A x \in DOMAIN f \ {d} : g[x] = f[x]

\* C24: a category create with a name whose directory exists when the call
\* arrives answers 400 "Category already exists" and leaves the whole store,
\* that directory's sidecar and project files included, as it was; a create
\* with a fresh name that answers 200 has made the directory, holding nothing
\* but a sidecar with id = name = the given name, and has touched no other
\* directory; a create with a fresh name fails only on an I/O error.
C24_CreateConflictOrFresh ==
    \A s \in Slots :
        (Finished(s, "catCreate") /\ req[s].body.name # <<>>) =>
            LET r == req[s]
            IN  /\ dirExists(r.pre, r.id) =>
                      /\ r.res.status = 400
                      /\ r.res.body = "Category already exists"
                      /\ fs = r.pre
                /\ ~dirExists(r.pre, r.id) =>
                      /\ r.res.status \in {200, 500}
                      /\ r.res.status = 500 => r.res.body = "EIO"
                      /\ SameBut(r.pre, fs, r.id)
                /\ (~dirExists(r.pre, r.id) /\ r.res.status = 200) =>
                      /\ dirExists(fs, r.id)
                      /\ DOMAIN fs[r.id].json = {Str_category}
                      /\ DOMAIN fs[r.id].md = {}
                      /\ fs[r.id].json[Str_category].id = r.body.name
                      /\ fs[r.id].json[Str_category].name = r.body.name
                      /\ r.res.body = fs[r.id].json[Str_category]

\* A create of A with color red on the store where A holds a sidecar and a
\* project: 400, and the sidecar is still blue.
C24_Witness ==
    \E s \in Slots :
        /\ Finished(s, "catCreate") /\ req[s].id = Str_A
        /\ req[s].body.color = "red"
        /\ req[s].pre = CategoryStore
        /\ req[s].res.status = 400
        /\ fs[Str_A].json[Str_category].color = "blue"
        /\ ProjectsIn(fs, Str_A) # {}


\* C25: a category rename answers 404 "Category not found" exactly when the
\* source directory is absent, and 400 "Target category name already exists"
\* exactly when the source exists and the new name differs from the old one
\* and is a directory; in both cases the store is as it was.
C25_RenameNotFoundOrConflict ==
    \A s \in Slots :
        Finished(s, "catRename") =>
            LET r == req[s]
                absent == ~dirExists(r.pre, r.id)
                taken == /\ dirExists(r.pre, r.id) /\ r.body.name # r.id
                         /\ dirExists(r.pre, r.body.name)
            IN  /\ absent <=> r.res.status = 404
                /\ taken <=> r.res.status = 400
                /\ r.res.status = 404 => r.res.body = "Category not found"
                /\ r.res.status = 400 =>
                      r.res.body = "Target category name already exists"
                /\ r.res.status \in {400, 404} => fs = r.pre

\* A rename of A to B where both hold a project: 400, both still there.
C25_Witness ==
    \E s \in Slots :
        /\ Finished(s, "catRename") /\ req[s].id = Str_A /\ req[s].body.name = Str_B
        /\ req[s].pre = TwinStore
        /\ req[s].res.status = 400
        /\ ProjectsIn(fs, Str_A) # {} /\ ProjectsIn(fs, Str_B) # {}


\* The basenames of the project files of directory d in store f.
ProjectFiles(f, d) == (DOMAIN f[d].json \ {Str_category}) \cup DOMAIN f[d].md

\* The request in slot s is a category rename to another name that answered
\* 200.
Renamed(s) ==
    Succeeded(s, "catRename") /\ req[s].body.name # req[s].id

\* What a rename that answered 200 has done to the directory and its sidecar.
RenameFrame(s) ==
    LET r == req[s]
        old == r.id
        new == r.body.name
        before == SidecarOf(r.pre, old)
        after == SidecarOf(fs, new)
        kept(k) == IF k \in DOMAIN before THEN before[k] ELSE Undefined
        now_(k) == IF k \in DOMAIN after THEN after[k] ELSE Undefined
    IN  /\ ~dirExists(fs, old) /\ dirExists(fs, new)
        /\ SameBut(Drop(r.pre, old), Drop(fs, new), new)
        /\ fs[new].md = r.pre[old].md
        /\ Drop(fs[new].json, Str_category) = Drop(r.pre[old].json, Str_category)
        /\ after.id = new /\ after.name = new
        /\ now_("color") # kept("color") => now_("color") = r.body.color
        /\ now_("icon") # kept("icon") => now_("icon") = r.body.icon
        /\ r.body.color \notin {Undefined, "", Null} => now_("color") = r.body.color
        /\ now_("sort_order") = kept("sort_order")
        /\ r.res.body = after

\* C26: a category rename from old to new that answered 200 has moved the
\* directory with all its project files, unchanged, has set the sidecar's id
\* and name to new, has overwritten color and icon only when supplied and
\* has kept sort_order; and every project id that resolved to old resolves to
\* new.
C26_RenameMovesDirectory ==
    \A s \in Slots :
        Renamed(s) =>
            /\ RenameFrame(s)
            /\ \A id \in ProjectFiles(req[s].pre, req[s].id) :
                  FirstHolder(req[s].pre, id) = req[s].id =>
                      FirstHolder(fs, id) = req[s].body.name

\* Slot s holds an update of the name and slot x an update of the description
\* of the project; both have answered 200, the first with the new name and
\* without the new description, the second without the new name.
BothAnswered(s, x) ==
    /\ Succeeded(s, "put") /\ req[s].body = NameOnly
    /\ Succeeded(x, "put") /\ req[x].body = DescriptionOnly
    /\ req[s].res.body.name = Str_New
    /\ req[s].res.body.description = FreshMeta.description
    /\ req[x].res.body.name = FreshMeta.name

\* The step is the metadata write of an update, done without error.
SavesUpdate(s) ==
    /\ req[s].op = "put" /\ req[s].pc = "putWriteJson"
    /\ req'[s].pc = "rpfChkJson"

\* The step, if it is the metadata write of an update, stores the record the
\* update computed from the metadata it read earlier: the supplied field
\* changed, every other field as read, whatever is stored at the time of the
\* write.
WritesOwnCopy ==
    \A s \in Slots :
        SavesUpdate(s) =>
            LET stored == fs'[Str_A].json[TheProject]
                mine == req[s].meta
            IN  /\ stored = mine
                /\ req[s].body = NameOnly =>
                      stored.name = Str_New /\ stored.description = mine.description
                /\ req[s].body = DescriptionOnly =>
                      stored.description = "d" /\ stored.name = mine.name

\* C27: two updateMetadata requests on the same Split project that supply
\* different fields can interleave so that both answer 200 and the stored
\* metadata carries only the later writer's change: each writes the whole
\* record it computed from its own read, so the later write puts the earlier
\* writer's field back to the value the later writer had read.
C27_LaterWriteWins == [][WritesOwnCopy]_vars

\* The update of the name answered 200 and returned the new name, the update
\* of the description answered 200 after it, and the stored name is the old
\* one again.
C27_Witness ==
    \E s, x \in Slots :
        /\ BothAnswered(s, x)
        /\ fs[Str_A].json[TheProject].name = FreshMeta.name
        /\ fs[Str_A].json[TheProject].description = "d"


\* The lookup in slot s has ended without a match.
AnsweredNotFound(s) ==
    /\ req[s].pc = "done" /\ req[s].op \in {"get", "put"}
    /\ req[s].res.status = 404

\* C28: while lookups of a project run next to category renames and moves of
\* that project, the project's files exist in some category at every moment,
\* and yet a lookup can answer 404; it does so only if a rename or a move
\* was in flight at some moment of its scan.
C28_NotFoundOnlyWhenRaced ==
    /\ Holders(fs, TheProject) # {}
    /\ \A s \in Slots : AnsweredNotFound(s) => ~req[s].solo

\* A read has answered 404 for the project, which a category holds.
C28_Witness ==
    \E s \in Slots :
        /\ AnsweredNotFound(s) /\ req[s].op = "get"
        /\ Holders(req[s].pre, TheProject) # {}
        /\ Holders(fs, TheProject) # {}


\* C29: under any interleaving of requests on one Legacy project, no run of
\* the migration writes the metadata file of a basename whose metadata file
\* already exists.
C29_NoMigrationWriteOnceSplit ==
    [][\A s \in Slots :
          (req[s].pc = "migWriteJson" /\ req'[s].pc = "migWriteMd")
             => ~jsonExists(fs, req[s].dir, req[s].id)]_vars


ShadowOps == {"get", "put", "favorite", "append", "delete"}

\* The directory the handler of request r went on with after its scan.
ActedOn(r) == IF r.op = "delete" THEN r.cats[r.i] ELSE r.cat

\* Every file of basename id that directory d of f holds is in g as it was.
KeepsCopy(f, g, d, id) ==
    /\ dirExists(g, d)
    /\ jsonExists(f, d, id) => (jsonExists(g, d, id) /\ g[d].json[id] = f[d].json[id])
    /\ mdExists(f, d, id) => (mdExists(g, d, id) /\ g[d].md[id] = f[d].md[id])

\* C30: a read, updateMetadata, toggleFavorite, append or delete of an id that
\* some directories hold resolves it (no 404) to the first of them in
\* enumeration order whose name does not start with a dot, and leaves every
\* other copy's files as they were (and, unless it moves the project, every
\* other directory as a whole): what it answers without a move is what the
\* first copy holds afterwards, and a delete has removed the first copy's
\* files.  With no holder it answers 404 and changes nothing.
C30_FirstScannedShadows ==
    \A s \in Slots :
        (req[s].pc = "done" /\ req[s].op \in ShadowOps) =>
            LET r == req[s]
                id == r.id
            IN  IF Holders(r.pre, id) = {}
                THEN r.res.status = 404 /\ fs = r.pre
                ELSE LET first == FirstHolder(r.pre, id)
                     IN  /\ r.res.status # 404
                         /\ ActedOn(r) = first
                         /\ ~startsWithDot(first)
                         /\ \A d \in DOMAIN r.pre \ {first} : KeepsCopy(r.pre, fs, d, id)
                         /\ ~(r.op = "put" /\ IsMove(r)) => SameBut(r.pre, fs, first)
                         /\ dirExists(fs, first)
                         /\ (r.res.status = 200 /\ r.op # "delete"
                               /\ ~(r.op = "put" /\ IsMove(r))) =>
                               /\ jsonExists(fs, first, id)
                               /\ r.op # "append" =>
                                     \A k \in DOMAIN fs[first].json[id] :
                                         r.res.body[k] = fs[first].json[id][k]
                               /\ r.op = "append" =>
                                     r.res.body \in Range(fs[first].json[id].versions)
                         /\ (r.res.status = 200 /\ r.op = "delete") =>
                               Holders(fs, id) = Holders(r.pre, id) \ {first}

\* A toggle of the basename that a dot directory and B hold: it has flipped
\* the copy in B; and a delete where A and B hold it: B's copy is left.
C30_Witness ==
    \E s \in Slots :
        \/ /\ Succeeded(s, "favorite") /\ req[s].pre = DotTwinStore
           /\ req[s].cat = Str_B
           /\ fs[Str_B].json[req[s].id].is_favorite = TRUE
           /\ fs[Str_Dot] = DotTwinStore[Str_Dot]
        \/ /\ Succeeded(s, "delete") /\ req[s].pre = TwinStore
           /\ Holders(fs, req[s].id) = {Str_B}

\* The version_num values of a versions array are 1, 2, ..., n in that order.
NumberedFromOne(versions) ==
    \A i \in 1..Len(versions) : versions[i].version_num = i

\* C31: in every reachable state, under any interleaving of append,
\* updateMetadata, toggleFavorite and move on a created project, the versions
\* array of every metadata file stored for it carries version_num 1, 2, ..., n
\* in that order.
C31_VersionsNumberedFromOne ==
    \A d \in DOMAIN fs :
        jsonExists(fs, d, TheProject) =>
            NumberedFromOne(fs[d].json[TheProject].versions)

\* The content file of the project holds the content of the last stored
\* version, the one with the highest version_num.
ContentIsLatestVersion ==
    LET meta == fs[Str_A].json[TheProject]
        n == Len(meta.versions)
    IN  n > 0 => /\ \A i \in 1..n : meta.versions[i].version_num <= meta.versions[n].version_num
                 /\ mdExists(fs, Str_A, TheProject)
                 /\ fs[Str_A].md[TheProject] = meta.versions[n].content

C33_DeletedStaysDeleted ==
    \A s \in Slots :
        (Succeeded(s, "delete") /\ \A x \in Slots \ {s} : ~InFlight(x)) =>
            \A d \in DOMAIN fs :
                ~jsonExists(fs, d, req[s].id) /\ ~mdExists(fs, d, req[s].id)

\* The request r is a PUT naming a category that did not hold the project
\* when it arrived, the project being Split then and its id held by one
\* category only.
MovesSplitProject(r) ==
    /\ r.op = "put" /\ r.pc # "idle"
    /\ Truthy(r.body, "category_id")
    /\ Cardinality(Holders(r.pre, r.id)) = 1
    /\ \A d \in Holders(r.pre, r.id) :
          jsonExists(r.pre, d, r.id) /\ d # r.body.category_id

\* C34: at every state of a move of a Split project with a unique id, between
\* its filesystem steps and after it has failed at any of them, exactly one
\* category holds the project's metadata file and at most one holds its
\* content file.
C34_MoveKeepsOneCopy ==
    \A s \in Slots :
        MovesSplitProject(req[s]) =>
            /\ Cardinality({d \in DOMAIN fs : jsonExists(fs, d, req[s].id)}) = 1
            /\ Cardinality({d \in DOMAIN fs : mdExists(fs, d, req[s].id)}) <= 1

\* A move that failed at the move of the content file: the metadata file is
\* in the new category, the content file still in the old one.
C34_Witness ==
    \E s \in Slots :
        /\ MovesSplitProject(req[s])
        /\ req[s].pc = "done" /\ req[s].res.status = 500 /\ req[s].at = "putMoveMd"
        /\ jsonExists(fs, req[s].body.category_id, req[s].id)
        /\ mdExists(fs, req[s].cat, req[s].id)
        /\ ~jsonExists(fs, req[s].cat, req[s].id)

ProjectAsBefore(f, g, id) ==
    \A d \in DOMAIN f \cup DOMAIN g :
        /\ jsonExists(f, d, id) <=> jsonExists(g, d, id)
        /\ mdExists(f, d, id) <=> mdExists(g, d, id)
        /\ jsonExists(f, d, id) => g[d].json[id] = f[d].json[id]
        /\ mdExists(f, d, id) => g[d].md[id] = f[d].md[id]

\* The request in slot s is an updateMetadata or a version append that
\* located its project and answered 500.
FailedWrite(s) ==
    /\ req[s].pc = "done" /\ req[s].op \in {"put", "append"}
    /\ req[s].res.status = 500
    /\ req[s].cat # <<>>

\* The filesystem calls of the two handlers after the scan, in program order.
StepOrder ==
    <<"migRead", "migWriteJson", "migWriteMd", "readJson", "putWriteMd",
      "putEnsureDir", "putMoveJson", "putMoveMd", "putWriteJsonNew",
      "putWriteJson", "appWriteJson", "appWriteMd">>

Rank(pc) == CHOOSE i \in DOMAIN StepOrder : StepOrder[i] = pc

\* The first call of request r that writes a file of the project.
FirstWrite(r) ==
    IF IsLegacy(r.pre, r.cat, r.id)
    THEN (IF HasHeader(r.pre[r.cat].md[r.id]) THEN "migWriteJson" ELSE "readJson")
    ELSE IF r.op = "append" THEN "appWriteJson"
    ELSE IF "current_content" \in r.body.has THEN "putWriteMd"
    ELSE IF IsMove(r) THEN "putMoveJson"
    ELSE "putWriteJson"

\* C36 as stated: when updateMetadata or version append answers an error
\* because a filesystem step failed, the project's metadata file, content
\* file and location are exactly as they were before the request.
C36_FailureHasNoEffect ==
    \A s \in Slots :
        FailedWrite(s) => ProjectAsBefore(req[s].pre, fs, req[s].id)

\* C36, amended: the answer of the failed request is the error alone; the
\* project's files are as they were if the failing step is the request's
\* first write to them or comes before it, and otherwise the steps completed
\* before it stay in effect: the content file an updateMetadata has
\* overwritten, the metadata file an append has rewritten.
C36_FailureKeepsCompletedSteps ==
    \A s \in Slots :
        FailedWrite(s) =>
            LET r == req[s] IN
            /\ r.at \in Range(StepOrder)
            /\ r.res.body \in {"EIO", "ENOENT", "dest already exists."}
            /\ Rank(r.at) <= Rank(FirstWrite(r)) =>
                  ProjectAsBefore(r.pre, fs, r.id)
            /\ (/\ r.op = "put" /\ "current_content" \in r.body.has
                /\ Rank(r.at) > Rank("putWriteMd")) =>
                  \E d \in {r.cat} \cup (IF IsMove(r) THEN {r.body.category_id} ELSE {}) :
                      /\ mdExists(fs, d, r.id)
                      /\ fs[d].md[r.id] = r.body.current_content
            /\ (r.op = "append" /\ r.at = "appWriteMd") =>
                  (jsonExists(fs, r.cat, r.id)
                     /\ fs[r.cat].json[r.id] = r.meta
                     /\ r.text \in Range(r.meta.versions))

\* A move onto a category that holds a metadata file of the same id has
\* failed at its first write, and an append has failed at its second.
C36_Witness ==
    \E s \in Slots :
        /\ FailedWrite(s)
        /\ \/ /\ req[s].op = "put" /\ req[s].at = "putMoveJson"
              /\ req[s].res.body = "dest already exists."
              /\ "current_content" \notin req[s].body.has
              /\ req[s].pre = TwinStore /\ fs = TwinStore
           \/ req[s].op = "append" /\ req[s].at = "appWriteMd"

\* C37: a project read, updateMetadata, toggleFavorite, version append or
\* project delete, whatever its id (the id "_category" included), leaves every
\* category's sidecar in place and as it was, and a read never answers with a
\* category's sidecar as the project.
C37_SidecarsUntouched ==
    \A s \in Slots :
        (req[s].pc \notin {"idle"} /\ req[s].op \in ShadowOps) =>
            /\ \A d \in DOMAIN req[s].pre :
                  jsonExists(req[s].pre, d, Str_category) =>
                      /\ jsonExists(fs, d, Str_category)
                      /\ fs[d].json[Str_category] = req[s].pre[d].json[Str_category]
            /\ Succeeded(s, "get") =>
                  \A d \in DOMAIN req[s].pre :
                      jsonExists(req[s].pre, d, Str_category) =>
                          \E k \in DOMAIN req[s].pre[d].json[Str_category] :
                              \/ k \notin DOMAIN req[s].res.body
                              \/ req[s].res.body[k] # req[s].pre[d].json[Str_category][k]

\* C38: of two category creates with the same name that have both answered,
\* at most one has answered success, the other has answered 400 "Category
\* already exists", and the stored sidecar is the one the successful request
\* wrote.
C38_OneCreateWins ==
    \A s \in Slots : \A x \in Slots \ {s} :
        (/\ Finished(s, "catCreate") /\ Finished(x, "catCreate")
         /\ req[s].id = req[x].id /\ req[s].res.status = 200) =>
            /\ req[x].res.status = 400
            /\ jsonExists(fs, req[s].id, Str_category)
            /\ fs[req[s].id].json[Str_category] = req[s].res.body

\* The sort_order the items of a reorder give for directory d.
OrdersFor(items, d) == {items[i].sort_order : i \in {j \in DOMAIN items : items[j].id = d}}

\* C39: a reorder that answered ok has, for every item whose directory
\* exists, set the sidecar's sort_order to the item's value and kept the
\* sidecar's other fields (or made the sidecar id = name = directory name,
\* color blue, where there was none); it has created no directory, left the
\* directories no item names as they were, and left every project file as it
\* was.
C39_ReorderSetsSortOrderOnly ==
    \A s \in Slots :
        Succeeded(s, "catReorder") =>
            LET r == req[s] IN
            /\ DOMAIN fs = DOMAIN r.pre
            /\ \A d \in DOMAIN r.pre :
                  /\ fs[d].md = r.pre[d].md
                  /\ ProjectsIn(fs, d) = ProjectsIn(r.pre, d)
                  /\ \A id \in ProjectsIn(fs, d) : fs[d].json[id] = r.pre[d].json[id]
                  /\ IF OrdersFor(r.body, d) = {}
                     THEN fs[d] = r.pre[d]
                     ELSE /\ jsonExists(fs, d, Str_category)
                          /\ LET new == fs[d].json[Str_category]
                                 old == IF jsonExists(r.pre, d, Str_category)
                                        THEN r.pre[d].json[Str_category]
                                        ELSE [id |-> d, name |-> d, color |-> "blue"]
                             IN  /\ new.sort_order \in OrdersFor(r.body, d)
                                 /\ DOMAIN new = DOMAIN old \cup {"sort_order"}
                                 /\ \A k \in DOMAIN old \ {"sort_order"} : new[k] = old[k]

\* A reorder naming the absent directory B and the category A, which has a
\* sidecar and a project, has answered ok.
C39_Witness ==
    \E s \in Slots :
        /\ Succeeded(s, "catReorder")
        /\ req[s].pre = CategoryStore
        /\ Len(req[s].body) = 2
        /\ fs[Str_A].json[Str_category].sort_order = 100
        /\ ~dirExists(fs, Str_B)
=============================================================================
